---- MODULE Spec2Model ----
(***************************************************************************)
(* A model of dlc2labelstudio: the Label Studio annotation parser          *)
(* (ls_annot_parser.py), the DLC table assembler and writer                *)
(* (data_export.py), the backup helper (io.py), the per-image loader and   *)
(* the dataset filter (dlc_data.py), the label configuration builder       *)
(* (label_config.py) and the import (data_import.py, cli.py,               *)
(* ls_client.py).                                                          *)
(*                                                                         *)
(* Conventions                                                             *)
(*  - a path string is the sequence of its '/'-separated segments (the     *)
(*    sequence of its characters where filter_dataset is checked on its    *)
(*    own);                                                                *)
(*  - a float in a record or a table is an exact fraction <<n, d>> in      *)
(*    lowest terms, d > 0; the rounding of the two coordinate conversions  *)
(*    is modelled apart, in binary64, under SpecPercent;                   *)
(*  - None is the value None (NoneStr where a string is expected); a null   *)
(*    table cell is None;                                                  *)
(*  - a Python exception is a record [type, args]: args are the values the *)
(*    code puts into the exception, nothing else;                          *)
(*  - every operation result is a record [exc, value] where exc is NoExc   *)
(*    when the call returned.                                              *)
(***************************************************************************)
EXTENDS Integers, Sequences, FiniteSets, TLC

VARIABLES
    op,     \* the operation performed last ("none" before the first call)
    arg,    \* the arguments of that call (before the call: the drawn input)
    ret,    \* what the call returned or raised
    fs,     \* the table files: path -> content, or Absent
    label_studio,   \* the project on the Label Studio server, None before it is created
    labeled_data,   \* the images below labeled-data/
    manifest        \* the upload manifest of the project: [content], or Absent

vars == <<op, arg, ret, fs, label_studio, labeled_data, manifest>>

\* what only the import touches
import_state == <<label_studio, labeled_data, manifest>>

(***************************************************************************)
(* Python values                                                           *)
(***************************************************************************)
None == <<>>

NoneStr == "<None>"

NoExc == [type |-> "NoExc", args |-> <<>>]

Raise(type, args) == [type |-> type, args |-> args]

Returned(value) == [exc |-> NoExc, value |-> value]

Raised(type, args) == [exc |-> Raise(type, args), value |-> None]

RECURSIVE GCD(_, _)
GCD(a, b) == IF b = 0 THEN a ELSE GCD(b, a % b)

Abs(n) == IF n < 0 THEN -n ELSE n

\* the float n / d (d # 0), in lowest terms
Frac(n, d) ==
    LET g == GCD(Abs(n), Abs(d))
        s == IF d < 0 THEN -1 ELSE 1
    IN  <<(s * n) \div g, (s * d) \div g>>

FMul(a, b) == Frac(a[1] * b[1], a[2] * b[2])

FDiv(a, b) == Frac(a[1] * b[2], a[2] * b[1])

FInt(n) == <<n, 1>>

Range(s) == {s[i] : i \in DOMAIN s}

\* Op applied to the value of v, v being evaluated once
Force(v, Op(_)) == CHOOSE out \in {Op(a) : a \in {v}} : TRUE

RECURSIVE SeqsUpTo(_, _)
SeqsUpTo(S, n) ==
    IF n = 0 THEN {<<>>}
    ELSE LET shorter == SeqsUpTo(S, n - 1)
         IN  shorter \cup {Append(s, x) : s \in {t \in shorter : Len(t) = n - 1}, x \in S}

RECURSIVE Flatten(_)
Flatten(ss) == IF ss = <<>> THEN <<>> ELSE Head(ss) \o Flatten(Tail(ss))

(***************************************************************************)
(* ls_annot_parser.py                                                      *)
(***************************************************************************)

\* A Python dict with string keys, in insertion order: keys is the order of
\* first insertion, item the value stored last under each key.
EmptyDict == [keys |-> <<>>, item |-> <<>>]

DictHas(d, k) == \E i \in DOMAIN d.keys : d.keys[i] = k

DictGet(d, k) == d.item[CHOOSE i \in DOMAIN d.keys : d.keys[i] = k]

DictPut(d, k, v) ==
    IF DictHas(d, k)
    THEN [d EXCEPT !.item[CHOOSE i \in DOMAIN d.keys : d.keys[i] = k] = v]
    ELSE [keys |-> Append(d.keys, k), item |-> Append(d.item, v)]

RECURSIVE filter_and_index_from(_, _, _)
filter_and_index_from(annotations, type, indexed0) ==
    Force(indexed0, LAMBDA indexed :
        IF annotations = <<>> THEN indexed
        ELSE LET item == Head(annotations)
             IN  filter_and_index_from(Tail(annotations), type,
                     IF item.type = type THEN DictPut(indexed, item.id, item)
                     ELSE indexed))

filter_and_index(annotations, type) ==
    filter_and_index_from(annotations, type, EmptyDict)

\* d[k].append(v), d[k] being created empty when k is new
DictAppend(d, k, v) ==
    IF DictHas(d, k)
    THEN [d EXCEPT !.item[CHOOSE i \in DOMAIN d.keys : d.keys[i] = k] = Append(@, v)]
    ELSE [keys |-> Append(d.keys, k), item |-> Append(d.item, <<v>>)]

RECURSIVE build_relation_map_from(_, _)
build_relation_map_from(annotations, relmap0) ==
    Force(relmap0, LAMBDA relmap :
        IF annotations = <<>> THEN relmap
        ELSE LET rel == Head(annotations)
             IN  build_relation_map_from(Tail(annotations),
                     IF rel.type = "relation"
                     THEN Force(DictAppend(relmap, rel.from_id, rel.to_id),
                                LAMBDA m : DictAppend(m, rel.to_id, rel.from_id))
                     ELSE relmap))

build_relation_map(annotations) == build_relation_map_from(annotations, EmptyDict)

\* data.image is looked up before task_path
get_image_path_DataFirst(entry) ==
    IF entry.meta_original_file # None THEN entry.meta_original_file
    ELSE IF entry.data_image # None THEN entry.data_image
    ELSE IF entry.task_path # None THEN entry.task_path
    ELSE IF entry.data_depth_image # None THEN entry.data_depth_image
    ELSE None

get_image_path(entry) ==
    IF entry.meta_original_file # None THEN entry.meta_original_file
    ELSE IF entry.task_path # None THEN entry.task_path
    ELSE IF entry.data_image # None THEN entry.data_image
    ELSE IF entry.data_depth_image # None THEN entry.data_depth_image
    ELSE None

\* the dict appended to `out` for one keypoint (lines 57-64 and 69-76)
annotation_record(entry, individual, kpt) ==
    [ py         |-> "dict",
      task_id    |-> entry.id,
      file_name  |-> get_image_path(entry),
      individual |-> individual,
      bodypart   |-> kpt.label,
      x          |-> FDiv(FMul(kpt.x, FInt(kpt.original_width)), FInt(100)),
      y          |-> FDiv(FMul(kpt.y, FInt(kpt.original_height)), FInt(100)) ]

\* lines 55-64: the keypoints related to one individual; acc is [exc, out]
RECURSIVE append_related(_, _, _, _, _)
append_related(entry, indv, rels, keypoints, acc0) ==
    Force(acc0, LAMBDA acc :
        IF rels = <<>> \/ acc.exc # NoExc THEN acc
        ELSE LET rel == Head(rels)
             IN  IF ~DictHas(keypoints, rel)
                 THEN [acc EXCEPT !.exc = Raise("KeyError", <<rel>>)]
                 ELSE append_related(entry, indv, Tail(rels), keypoints,
                          [acc EXCEPT !.out = Append(@,
                              annotation_record(entry, indv.label,
                                                DictGet(keypoints, rel)))]))

\* lines 54-64: the loop over individuals.items()
RECURSIVE append_individuals(_, _, _, _, _, _)
append_individuals(entry, ids, individuals, keypoints, relations, acc0) ==
    Force(acc0, LAMBDA acc :
        IF ids = <<>> \/ acc.exc # NoExc THEN acc
        ELSE LET indv_id == Head(ids)
             IN  IF ~DictHas(relations, indv_id)
                 THEN [acc EXCEPT !.exc = Raise("KeyError", <<indv_id>>)]
                 ELSE append_individuals(entry, Tail(ids), individuals, keypoints,
                          relations,
                          append_related(entry, DictGet(individuals, indv_id),
                                         DictGet(relations, indv_id), keypoints, acc)))

\* lines 68-76: every keypoint, with no individual
RECURSIVE append_keypoints(_, _, _)
append_keypoints(entry, kpts, out0) ==
    Force(out0, LAMBDA out :
        IF kpts = <<>> THEN out
        ELSE append_keypoints(entry, Tail(kpts),
                 Append(out, annotation_record(entry, NoneStr, Head(kpts)))))

\* the last annotation entry is parsed instead of the first
get_annotation_from_entry_LastEntry(entry) ==
    LET warned == IF Len(entry.entries) > 1 THEN <<entry.id>> ELSE <<>>
    IN  IF entry.entries = <<>>
        THEN [exc |-> Raise("IndexError", <<"list index out of range">>),
              value |-> None, warned |-> warned]
        ELSE LET to_parse == entry.entries[Len(entry.entries)] IN
             Force(filter_and_index(to_parse, "rectanglelabels"), LAMBDA individuals :
             Force(filter_and_index(to_parse, "keypointlabels"), LAMBDA keypoints :
             Force(build_relation_map(to_parse), LAMBDA relations :
                 IF Len(individuals.keys) > 1
                 THEN Force(append_individuals(entry, individuals.keys, individuals,
                                keypoints, relations, [exc |-> NoExc, out |-> <<>>]),
                            LAMBDA multi :
                                [exc |-> multi.exc,
                                 value |-> IF multi.exc = NoExc THEN multi.out ELSE None,
                                 warned |-> warned])
                 ELSE [exc |-> NoExc,
                       value |-> append_keypoints(entry, keypoints.item, <<>>),
                       warned |-> warned])))

\* entry[key] is the list of annotation entries, each the list of its result
\* objects; the value is [exc, value, warned], warned being the task ids the
\* printed warnings name.
get_annotation_from_entry(entry) ==
    LET warned == IF Len(entry.entries) > 1 THEN <<entry.id>> ELSE <<>>
    IN  IF entry.entries = <<>>
        THEN [exc |-> Raise("IndexError", <<"list index out of range">>),
              value |-> None, warned |-> warned]
        ELSE LET to_parse == entry.entries[1] IN
             Force(filter_and_index(to_parse, "rectanglelabels"), LAMBDA individuals :
             Force(filter_and_index(to_parse, "keypointlabels"), LAMBDA keypoints :
             Force(build_relation_map(to_parse), LAMBDA relations :
                 IF Len(individuals.keys) > 1
                 THEN Force(append_individuals(entry, individuals.keys, individuals,
                                keypoints, relations, [exc |-> NoExc, out |-> <<>>]),
                            LAMBDA multi :
                                [exc |-> multi.exc,
                                 value |-> IF multi.exc = NoExc THEN multi.out ELSE None,
                                 warned |-> warned])
                 ELSE [exc |-> NoExc,
                       value |-> append_keypoints(entry, keypoints.item, <<>>),
                       warned |-> warned])))

\* lines 21-34; entry.key is the key found in the task: "annotations",
\* "completions", or "none" when the task has neither. Each per-task list is
\* appended as one element.
RECURSIVE read_annotations_from(_, _)
read_annotations_from(annotations, completions0) ==
    Force(completions0, LAMBDA completions :
        IF annotations = <<>> THEN Returned(completions)
        ELSE IF Head(annotations).key = "none"
        THEN Raised("ValueError", <<"Cannot find annotation data for entry!">>)
        ELSE Force(get_annotation_from_entry(Head(annotations)), LAMBDA entry_data :
                 IF entry_data.exc # NoExc
                 THEN [exc |-> entry_data.exc, value |-> None]
                 ELSE read_annotations_from(Tail(annotations),
                          Append(completions,
                                 [py |-> "list", items |-> entry_data.value]))))

read_annotations(annotations) == read_annotations_from(annotations, <<>>)

(***************************************************************************)
(* dlc_data.py, data_export.py: the project configuration and the          *)
(* assembler                                                               *)
(***************************************************************************)

\* image paths, relative to the project root, in the order of Python's string
\* comparison
FileOrder ==
    << <<"labeled-data", "v1", "a.png">>,
       <<"labeled-data", "v1", "b.png">>,
       <<"labeled-data", "v2", "a.png">> >>

FileRank(file_name) == CHOOSE i \in DOMAIN FileOrder : FileOrder[i] = file_name

\* dlc_config: `has` is the set of keys the mapping holds
is_multianimal(dlc_config) ==
    "multianimalproject" \in dlc_config.has /\ dlc_config.multianimalproject

\* a[name] of a list element: only a dict has string keys
HasStringKeys(a) == a.py = "dict"

RECURSIVE ColumnsOfBodyparts(_, _)
ColumnsOfBodyparts(prefix, bodyparts) ==
    IF bodyparts = <<>> THEN <<>>
    ELSE <<prefix \o <<Head(bodyparts), "x">>, prefix \o <<Head(bodyparts), "y">>>>
         \o ColumnsOfBodyparts(prefix, Tail(bodyparts))

RECURSIVE ColumnsOfIndividuals(_, _)
ColumnsOfIndividuals(dlc_config, individuals) ==
    IF individuals = <<>> THEN <<>>
    ELSE ColumnsOfBodyparts(<<dlc_config.scorer, Head(individuals)>>,
                            dlc_config.multianimalbodyparts)
         \o ColumnsOfIndividuals(dlc_config, Tail(individuals))

\* the index without the columns of the unique bodyparts
make_index_from_dlc_config_NoUnique(dlc_config) ==
    IF is_multianimal(dlc_config)
    THEN ColumnsOfIndividuals(dlc_config, dlc_config.individuals)
    ELSE ColumnsOfBodyparts(<<dlc_config.scorer>>, dlc_config.bodyparts)

make_index_from_dlc_config(dlc_config) ==
    IF is_multianimal(dlc_config)
    THEN ColumnsOfIndividuals(dlc_config, dlc_config.individuals)
         \o ColumnsOfBodyparts(<<dlc_config.scorer, "single">>, dlc_config.uniquebodyparts)
    ELSE ColumnsOfBodyparts(<<dlc_config.scorer>>, dlc_config.bodyparts)

\* a record goes before the records of its own file_name
InsertSorted_BeforeEquals(sorted0, a) ==
    LET k == Cardinality({i \in DOMAIN sorted0 :
                 FileRank(sorted0[i].file_name) < FileRank(a.file_name)})
    IN  SubSeq(sorted0, 1, k) \o <<a>> \o SubSeq(sorted0, k + 1, Len(sorted0))

\* sorted(..., key=file_name): a stable sort
RECURSIVE InsertSorted(_, _)
InsertSorted(sorted0, a) ==
    Force(sorted0, LAMBDA sorted :
        IF sorted = <<>> THEN <<a>>
        ELSE IF FileRank(sorted[Len(sorted)].file_name) <= FileRank(a.file_name)
             THEN Append(sorted, a)
             ELSE Append(InsertSorted(SubSeq(sorted, 1, Len(sorted) - 1), a),
                         sorted[Len(sorted)]))

\* the records left in input order
SortedByFileName_InputOrder(annots, sorted0) == sorted0 \o annots

RECURSIVE SortedByFileName(_, _)
SortedByFileName(annots, sorted0) ==
    Force(sorted0, LAMBDA sorted :
        IF annots = <<>> THEN sorted
        ELSE SortedByFileName(Tail(annots), InsertSorted(sorted, Head(annots))))

ColumnIndex(col_idx, column) ==
    IF \E c \in DOMAIN col_idx : col_idx[c] = column
    THEN CHOOSE c \in DOMAIN col_idx : col_idx[c] = column
    ELSE 0

\* the column key without the 'single' level of a record that has no individual
ColumnKey_NoSingle(dlc_config, annot) ==
    IF is_multianimal(dlc_config)
    THEN <<dlc_config.scorer, annot.individual, annot.bodypart>>
    ELSE <<dlc_config.scorer, annot.bodypart>>

\* lines 155-163: the column key of one record
ColumnKey(dlc_config, annot) ==
    IF is_multianimal(dlc_config)
    THEN IF annot.individual = NoneStr
         THEN <<dlc_config.scorer, "single", annot.bodypart>>
         ELSE <<dlc_config.scorer, annot.individual, annot.bodypart>>
    ELSE <<dlc_config.scorer, annot.bodypart>>

\* lines 170-175: the rationale of a schema violation; reading a key the
\* configuration does not hold raises KeyError inside the handler
\* a unique bodypart is reported as one with an individual, whatever the record's individual
Rationale_IgnoresIndividual(dlc_config, annot) ==
    IF "multianimalbodyparts" \notin dlc_config.has
    THEN Raised("KeyError", <<"multianimalbodyparts">>)
    ELSE IF annot.bodypart \in Range(dlc_config.multianimalbodyparts) /\ annot.individual = NoneStr
    THEN Returned("multianimal bodypart without individual")
    ELSE IF "uniquebodyparts" \notin dlc_config.has
    THEN Raised("KeyError", <<"uniquebodyparts">>)
    ELSE IF annot.bodypart \in Range(dlc_config.uniquebodyparts)
    THEN Returned("unique bodypart with an individual")
    ELSE Returned("Unknown")

Rationale(dlc_config, annot) ==
    IF "multianimalbodyparts" \notin dlc_config.has
    THEN Raised("KeyError", <<"multianimalbodyparts">>)
    ELSE IF annot.bodypart \in Range(dlc_config.multianimalbodyparts)
            /\ annot.individual = NoneStr
    THEN Returned("multianimal bodypart without individual")
    ELSE IF "uniquebodyparts" \notin dlc_config.has
    THEN Raised("KeyError", <<"uniquebodyparts">>)
    ELSE IF annot.bodypart \in Range(dlc_config.uniquebodyparts)
            /\ annot.individual # NoneStr
    THEN Returned("unique bodypart with an individual")
    ELSE Returned("Unknown")

\* lines 154-184 for one record; acc is [exc, row_idx, rows, errors_found,
\* messages], the record is written to the last row
AssembleOne(dlc_config, col_idx, annot, acc0) ==
    Force(acc0, LAMBDA acc :
    Force(ColumnIndex(col_idx, ColumnKey(dlc_config, annot) \o <<"x">>), LAMBDA cx :
    Force(ColumnIndex(col_idx, ColumnKey(dlc_config, annot) \o <<"y">>), LAMBDA cy :
    Force(IF cx = 0 THEN acc ELSE [acc EXCEPT !.rows[Len(acc.rows)][cx] = annot.x],
          LAMBDA withx :
    Force(Rationale(dlc_config, annot), LAMBDA why :
        IF cx # 0 /\ cy # 0
        THEN [withx EXCEPT !.rows[Len(acc.rows)][cy] = annot.y]
        ELSE IF why.exc # NoExc
        THEN [withx EXCEPT !.exc = why.exc, !.errors_found = @ + 1]
        ELSE [withx EXCEPT
                 !.errors_found = @ + 1,
                 !.messages = Append(@,
                     [task_id |-> annot.task_id, file_name |-> annot.file_name,
                      bodypart |-> annot.bodypart,
                      individual |-> IF is_multianimal(dlc_config)
                                     THEN annot.individual ELSE NoneStr,
                      rationale |-> why.value])])))))

\* lines 148-184: the records in sorted order; a new row starts where the
\* file name changes
RECURSIVE AssembleFrom(_, _, _, _, _)
AssembleFrom(dlc_config, col_idx, sorted_annot, i, acc0) ==
    Force(acc0, LAMBDA acc :
        IF i > Len(sorted_annot) \/ acc.exc # NoExc THEN acc
        ELSE LET annot == sorted_annot[i]
                 first == i = 1 \/ sorted_annot[i - 1].file_name # annot.file_name
             IN  AssembleFrom(dlc_config, col_idx, sorted_annot, i + 1,
                     AssembleOne(dlc_config, col_idx, annot,
                         IF first
                         THEN [acc EXCEPT
                                  !.row_idx = Append(@, annot.file_name),
                                  !.rows = Append(@, [c \in DOMAIN col_idx |-> None])]
                         ELSE acc)))

\* value: [table, errors_found, messages]. A table is [index, row_idx,
\* col_idx, rows]: index is "tuple" when the row labels are tuples of path
\* segments and "str" when they are path strings; rows[r][c] is the cell of
\* row r under column col_idx[c].
intermediate_annotations_to_dlc(intermediate_annotations, dlc_config) ==
    IF \E i \in DOMAIN intermediate_annotations :
           ~HasStringKeys(intermediate_annotations[i])
    THEN Raised("TypeError", <<"list indices must be integers or slices, not str">>)
    ELSE
    Force(make_index_from_dlc_config(dlc_config), LAMBDA col_idx :
    Force(SortedByFileName(intermediate_annotations, <<>>), LAMBDA sorted_annot :
    Force(AssembleFrom(dlc_config, col_idx, sorted_annot, 1,
              [exc |-> NoExc, row_idx |-> <<>>, rows |-> <<>>,
               errors_found |-> 0, messages |-> <<>>]),
          LAMBDA done :
        IF done.exc # NoExc THEN [exc |-> done.exc, value |-> None]
        ELSE IF done.row_idx = <<>>
        THEN Raised("TypeError", <<"Cannot infer number of levels from empty list">>)
        ELSE Returned([table |-> [index |-> "tuple", row_idx |-> done.row_idx,
                                  col_idx |-> col_idx, rows |-> done.rows],
                       errors_found |-> done.errors_found,
                       messages |-> done.messages]))))

(***************************************************************************)
(* io.py, data_export.py: the file system, backups and the writer          *)
(***************************************************************************)
MaxBackups == 3

\* The files are the tables CollectedData_<scorer>[.backup-<n>].<ext> of the
\* directories under the project root; n = 0 is the file itself.
TableDirs == {<<"labeled-data">>, <<"labeled-data", "v1">>, <<"labeled-data", "v2">>}

Paths == [dir : TableDirs, ext : {"csv", "h5"}, n : 0 .. MaxBackups]

Absent == None

NoFiles == [p \in Paths |-> Absent]

exists(files, path) == path \in Paths /\ files[path] # Absent

\* the counter taken from the number of backups that exist
BackupCounter_CountsBackups(files, origional_path, counter) ==
    IF exists(files, origional_path)
    THEN 1 + Cardinality({n \in 1 .. MaxBackups :
                             exists(files, [origional_path EXCEPT !.n = n])})
    ELSE 0

\* lines 93-99: the counter of the first name that does not exist, the
\* original path being tried first
RECURSIVE BackupCounter(_, _, _)
BackupCounter(files, origional_path, counter) ==
    IF exists(files, [origional_path EXCEPT !.n = counter])
    THEN BackupCounter(files, origional_path, counter + 1)
    ELSE counter

\* the file renamed to the backup name
backup_existing_file_Moves(files, origional_path) ==
    LET new_path == [origional_path EXCEPT !.n = BackupCounter(files, origional_path, 0)]
    IN  IF ~exists(files, origional_path)
        THEN [exc |-> Raise("FileNotFoundError", <<origional_path>>),
              files |-> files, new_path |-> None]
        ELSE [exc |-> NoExc,
              files |-> [files EXCEPT ![new_path] = files[origional_path],
                                      ![origional_path] = Absent],
              new_path |-> new_path]

\* the value is [exc, files, new_path]; shutil.copy2 copies the content and
\* fails on a path that does not exist
backup_existing_file(files, origional_path) ==
    LET new_path == [origional_path EXCEPT !.n = BackupCounter(files, origional_path, 0)]
    IN  IF ~exists(files, origional_path)
        THEN [exc |-> Raise("FileNotFoundError", <<origional_path>>),
              files |-> files, new_path |-> None]
        ELSE [exc |-> NoExc,
              files |-> [files EXCEPT ![new_path] = files[origional_path]],
              new_path |-> new_path]

\* the backup name is one the model has a file for
CanBackup(files, origional_path) ==
    BackupCounter(files, origional_path, 0) <= MaxBackups

\* DataFrame.to_csv: the header lines are the column keys, each line starts
\* with its row label (one field a level), a null cell is the empty field
to_csv(annotations) ==
    [format |-> "csv", header |-> annotations.col_idx,
     lines |-> [r \in DOMAIN annotations.rows |->
                   [label |-> annotations.row_idx[r],
                    fields |-> [c \in DOMAIN annotations.col_idx |->
                                   annotations.rows[r][c]]]]]

\* DataFrame.to_hdf(key="df_with_missing", format="fixed", mode="w"): the
\* file holds this one table
to_hdf(annotations) ==
    [format |-> "h5", key |-> "df_with_missing", table |-> annotations]

\* lines 71-74; group is NoneStr when no group is given
Destination(group, ext) ==
    [dir |-> IF group = NoneStr \/ group = "" THEN <<"labeled-data">>
             ELSE <<"labeled-data", group>>,
     ext |-> ext, n |-> 0]

WriteWithBackup(files0, path, content) ==
    Force(files0, LAMBDA files :
        [(IF exists(files, path) THEN backup_existing_file(files, path).files
          ELSE files) EXCEPT ![path] = content])

\* lines 77-97: the files after the call
save_dlc_annots(files, annotations, group) ==
    WriteWithBackup(
        WriteWithBackup(files, Destination(group, "csv"), to_csv(annotations)),
        Destination(group, "h5"), to_hdf(annotations))

\* lines 77-97 when one of the two writes raises: "failing" is to_csv (line
\* 83) or to_hdf (line 92); it raises before it changes its file, and the
\* calls before it have been made.  The value is [exc, files].
save_dlc_annots_raising(files, annotations, group, failing) ==
    LET csv_dest == Destination(group, "csv")
        h5_dest  == Destination(group, "h5")
        BackedUp(before, dest) ==
            IF exists(before, dest) THEN backup_existing_file(before, dest).files
            ELSE before
    IN  [exc |-> Raise("OSError", <<failing>>),
         files |-> IF failing = "to_csv" THEN BackedUp(files, csv_dest)
                   ELSE Force(WriteWithBackup(files, csv_dest, to_csv(annotations)),
                              LAMBDA written : BackedUp(written, h5_dest))]

CanSave(files, group) ==
    /\ Destination(group, "csv") \in Paths
    /\ CanBackup(files, Destination(group, "csv"))
    /\ CanBackup(files, Destination(group, "h5"))

\* lines 203-207: os.path.split twice gives the name of the parent directory
GroupOf(file_name) ==
    IF Len(file_name) >= 2 THEN file_name[Len(file_name) - 1] ELSE ""

\* the value is a dict: group -> list of records
RECURSIVE split_from(_, _)
split_from(intermediate_annotations, grouped0) ==
    Force(grouped0, LAMBDA grouped :
        IF intermediate_annotations = <<>> THEN Returned(grouped)
        ELSE LET annot == Head(intermediate_annotations)
             IN  IF ~HasStringKeys(annot)
                 THEN Raised("TypeError",
                             <<"list indices must be integers or slices, not str">>)
                 ELSE IF annot.file_name = None
                 THEN Raised("TypeError",
                             <<"expected str, bytes or os.PathLike object, not NoneType">>)
                 ELSE split_from(Tail(intermediate_annotations),
                          DictAppend(grouped, GroupOf(annot.file_name), annot)))

split_annotations_by_directory(intermediate_annotations) ==
    split_from(intermediate_annotations, EmptyDict)

\* lines 33-36: acc is [exc, grouped_dlc, total_errors]
RECURSIVE ConvertGroups(_, _, _, _)
ConvertGroups(grouped, dlc_config, i, acc0) ==
    Force(acc0, LAMBDA acc :
        IF i > Len(grouped.keys) \/ acc.exc # NoExc THEN acc
        ELSE Force(intermediate_annotations_to_dlc(grouped.item[i], dlc_config),
                   LAMBDA made :
                 ConvertGroups(grouped, dlc_config, i + 1,
                     IF made.exc # NoExc THEN [acc EXCEPT !.exc = made.exc]
                     ELSE [acc EXCEPT
                              !.grouped_dlc = DictPut(@, grouped.keys[i], made.value.table),
                              !.total_errors = @ + made.value.errors_found])))

\* lines 43-45
RECURSIVE SaveGroups(_, _, _)
SaveGroups(files0, grouped_dlc, i) ==
    Force(files0, LAMBDA files :
        IF i > Len(grouped_dlc.keys) THEN files
        ELSE SaveGroups(save_dlc_annots(files, grouped_dlc.item[i], grouped_dlc.keys[i]),
                        grouped_dlc, i + 1))

\* can every file the call would write be written within the modelled names
RECURSIVE CanSaveGroups(_, _, _)
CanSaveGroups(files0, grouped_dlc, i) ==
    Force(files0, LAMBDA files :
        IF i > Len(grouped_dlc.keys) THEN TRUE
        ELSE /\ CanSave(files, grouped_dlc.keys[i])
             /\ CanSaveGroups(
                    save_dlc_annots(files, grouped_dlc.item[i], grouped_dlc.keys[i]),
                    grouped_dlc, i + 1))

\* lines 28-58; the value is [exc, value, files, assembled]: what the call
\* returned or raised, the files after it, and whether it got past the
\* assembly of every group
convert_ls_annot_to_dlc(files, ls_annotations, dlc_config, split, save) ==
    LET Failed(exc) == [exc |-> exc, value |-> None, files |-> files, assembled |-> FALSE]
        Done(value, after) ==
            [exc |-> NoExc, value |-> value, files |-> after, assembled |-> TRUE]
    IN
    Force(read_annotations(ls_annotations), LAMBDA data :
        IF data.exc # NoExc THEN Failed(data.exc)
        ELSE IF split
        THEN Force(split_annotations_by_directory(data.value), LAMBDA grouped :
                 IF grouped.exc # NoExc THEN Failed(grouped.exc)
                 ELSE Force(ConvertGroups(grouped.value, dlc_config, 1,
                                [exc |-> NoExc, grouped_dlc |-> EmptyDict,
                                 total_errors |-> 0]),
                            LAMBDA groups :
                          IF groups.exc # NoExc THEN Failed(groups.exc)
                          ELSE IF groups.total_errors > 0 THEN Done(None, files)
                          ELSE IF save
                          THEN Done(groups.grouped_dlc,
                                    SaveGroups(files, groups.grouped_dlc, 1))
                          ELSE Done(groups.grouped_dlc, files)))
        ELSE Force(intermediate_annotations_to_dlc(data.value, dlc_config), LAMBDA whole :
                 IF whole.exc # NoExc THEN Failed(whole.exc)
                 ELSE IF whole.value.errors_found > 0 THEN Done(None, files)
                 ELSE IF save
                 THEN Done(whole.value.table,
                           save_dlc_annots(files, whole.value.table, NoneStr))
                 ELSE Done(whole.value.table, files)))

(***************************************************************************)
(* dlc_data.py: the per-image loader                                       *)
(***************************************************************************)
\* names in the order of Python's string comparison
NameOrder == <<"ghost", "ind1", "ind2", "me", "nose", "single", "tag", "tail", "x", "y", "zzz">>

\* MultiIndex.levels[l]: the distinct labels of one column level, sorted
Levels(col_idx, l) ==
    SelectSeq(NameOrder, LAMBDA name : \E c \in DOMAIN col_idx : col_idx[c][l] = name)

\* zip(a, b)
Zip(a, b) ==
    [i \in 1 .. (IF Len(a) < Len(b) THEN Len(a) ELSE Len(b)) |-> <<a[i], b[i]>>]

\* io.read_image(image_path).shape[:2]
read_image(image_path) == [height |-> 50, width |-> 100]

\* annots.loc[img_rel_path, ...]: the row a string key selects, 0 where the
\* lookup fails. A row label that is a tuple of several levels is not equal
\* to a string.
RowOf(annots, img_rel_path) ==
    LET hits == {r \in DOMAIN annots.row_idx :
                    /\ annots.row_idx[r] = img_rel_path
                    /\ annots.index = "str" \/ Len(img_rel_path) = 1}
    IN  IF hits = {} THEN 0 ELSE CHOOSE r \in hits : TRUE

\* lines 77-96: one rectangle for each individual, in the iteration order of
\* a set
RectanglesFor(indv_order) ==
    [i \in DOMAIN indv_order |->
        [type |-> "rectanglelabels", id |-> "my_id", label |-> indv_order[i],
         x |-> FInt(0), y |-> FInt(0), original_width |-> 100, original_height |-> 50,
         from_id |-> "", to_id |-> ""]]

\* lines 98-128: acc is [failed, out]
RECURSIVE LoadKeypoints(_, _, _, _, _)
LoadKeypoints(annots, dlc_config, img_rel_path, to_iter, acc0) ==
    Force(acc0, LAMBDA acc :
        IF to_iter = <<>> \/ acc.failed THEN acc
        ELSE LET idx == Head(to_iter)
                 row == RowOf(annots, img_rel_path)
                 cx  == ColumnIndex(annots.col_idx, <<dlc_config.scorer>> \o idx \o <<"x">>)
                 cy  == ColumnIndex(annots.col_idx, <<dlc_config.scorer>> \o idx \o <<"y">>)
                 size == read_image(img_rel_path)
                 kpt == [type |-> "keypointlabels", id |-> "my_kpt_id",
                         label |-> idx[Len(idx)],
                         x |-> FMul(FDiv(annots.rows[row][cx], FInt(size.width)), FInt(100)),
                         y |-> FMul(FDiv(annots.rows[row][cy], FInt(size.height)), FInt(100)),
                         original_width |-> size.width, original_height |-> size.height,
                         from_id |-> "", to_id |-> ""]
                 rel == [type |-> "relation", id |-> "", label |-> "",
                         x |-> FInt(0), y |-> FInt(0),
                         original_width |-> 0, original_height |-> 0,
                         from_id |-> "my_kpt_id", to_id |-> "my_id"]
             IN  IF row = 0 \/ cx = 0 \/ cy = 0 THEN [acc EXCEPT !.failed = TRUE]
                 ELSE LoadKeypoints(annots, dlc_config, img_rel_path, Tail(to_iter),
                          IF annots.rows[row][cx] = None \/ annots.rows[row][cy] = None
                          THEN acc
                          ELSE IF is_multianimal(dlc_config)
                          THEN [acc EXCEPT !.out = @ \o <<kpt, rel>>]
                          ELSE [acc EXCEPT !.out = Append(@, kpt)]))

\* the table file next to the image
AnnotPath(image_path) ==
    [dir |-> SubSeq(image_path, 1, Len(image_path) - 1), ext |-> "h5", n |-> 0]

\* the orders in which the set of individuals of the table can be iterated
IterationOrders(files, dlc_config, image_path) ==
    IF exists(files, AnnotPath(image_path)) /\ is_multianimal(dlc_config)
    THEN LET names == Range(Levels(files[AnnotPath(image_path)].table.col_idx, 2))
         IN  {order \in [1 .. Cardinality(names) -> names] : Range(order) = names}
    ELSE {<<>>}

\* an annotation without results where there is nothing to load
load_dlc_annotations_for_image_EmptyResult(files, dlc_config, image_path, indv_order) ==
    [result |-> <<>>]

\* image_path is the path of the image below the project root; the value is
\* None or [result |-> the result objects]. Every exception ends in None.
load_dlc_annotations_for_image(files, dlc_config, image_path, indv_order) ==
    IF "project_path" \notin dlc_config.has \/ "scorer" \notin dlc_config.has THEN None
    ELSE IF ~exists(files, AnnotPath(image_path)) THEN None
    ELSE Force(files[AnnotPath(image_path)].table, LAMBDA annots :
             Force(LoadKeypoints(annots, dlc_config, image_path,
                       IF is_multianimal(dlc_config)
                       THEN Zip(Levels(annots.col_idx, 2), Levels(annots.col_idx, 3))
                       ELSE <<Levels(annots.col_idx, 2)>>,
                       [failed |-> FALSE,
                        out |-> IF is_multianimal(dlc_config)
                                THEN RectanglesFor(indv_order) ELSE <<>>]),
                   LAMBDA done :
                 IF done.failed THEN None ELSE [result |-> done.out]))

(***************************************************************************)
(* Inputs of the parser                                                    *)
(***************************************************************************)
MaxRelations == 2
MaxTasks == 3

\* a result object of a Label Studio annotation; x and y are percentages
Keypoint(id, label, x, y) ==
    [type |-> "keypointlabels", id |-> id, label |-> label, x |-> x, y |-> y,
     original_width |-> 100, original_height |-> 50, from_id |-> "", to_id |-> ""]

Rectangle(id, label) ==
    [type |-> "rectanglelabels", id |-> id, label |-> label, x |-> FInt(0), y |-> FInt(0),
     original_width |-> 100, original_height |-> 50, from_id |-> "", to_id |-> ""]

Relation(from_id, to_id) ==
    [type |-> "relation", id |-> "", label |-> "", x |-> FInt(0), y |-> FInt(0),
     original_width |-> 0, original_height |-> 0, from_id |-> from_id, to_id |-> to_id]

Task(id, key, entries, original_file) ==
    [id |-> id, key |-> key, entries |-> entries,
     meta_original_file |-> original_file, task_path |-> None,
     data_image |-> <<"data", "upload", "x.png">>, data_depth_image |-> None]

RectanglePool == <<Rectangle("r1", "ind1"), Rectangle("r2", "ind2")>>

KeypointPool ==
    <<Keypoint("k1", "nose", FInt(50), FInt(50)),
      Keypoint("k2", "tail", FInt(25), FInt(10)),
      Keypoint("k3", "tag", FInt(10), FInt(80))>>

\* "zz" is the id of no object
RelationPool ==
    <<Relation("k1", "r1"), Relation("k2", "r1"), Relation("k3", "r2"),
      Relation("k1", "r2"), Relation("r2", "k2"), Relation("k2", "zz"),
      Relation("r1", "zz")>>

RECURSIVE Pick(_, _, _)
Pick(pool, chosen, i) ==
    IF i > Len(pool) THEN <<>>
    ELSE (IF i \in chosen THEN <<pool[i]>> ELSE <<>>) \o Pick(pool, chosen, i + 1)

ResultLists ==
    {Pick(RectanglePool, A, 1) \o Pick(KeypointPool, B, 1) \o Pick(RelationPool, C, 1) :
        A \in SUBSET DOMAIN RectanglePool,
        B \in SUBSET DOMAIN KeypointPool,
        C \in {D \in SUBSET DOMAIN RelationPool : Cardinality(D) <= MaxRelations}}

\* one task with one annotation entry
GraphTasks == {Task("t1", "annotations", <<results>>, FileOrder[1]) : results \in ResultLists}

\* tasks as an export holds them: annotated, annotated under the legacy key,
\* without annotation data, not annotated yet, annotated twice
ListTasks ==
    { Task("t1", "annotations", <<Pick(KeypointPool, {1}, 1)>>, FileOrder[1]),
      Task("t2", "completions", <<Pick(KeypointPool, {1, 2}, 1)>>, FileOrder[2]),
      Task("t3", "none", <<>>, FileOrder[3]),
      Task("t4", "annotations", <<>>, FileOrder[3]),
      Task("t5", "annotations",
           <<Pick(KeypointPool, {2}, 1), Pick(KeypointPool, {1, 3}, 1)>>, FileOrder[3]) }

ParserInputs == {<<t>> : t \in GraphTasks} \cup SeqsUpTo(ListTasks, MaxTasks)

(***************************************************************************)
(* SpecParser: read_annotations and get_annotation_from_entry applied to   *)
(* drawn task lists                                                        *)
(***************************************************************************)
InitParser ==
    /\ op = "none"
    /\ arg \in {[tasks |-> ts] : ts \in ParserInputs}
    /\ ret = None
    /\ fs = NoFiles
    /\ label_studio = <<>> /\ labeled_data = {} /\ manifest = <<>>

CallReadAnnotations ==
    /\ op = "none"
    /\ op' = "read_annotations"
    /\ ret' = read_annotations(arg.tasks)
    /\ UNCHANGED <<arg, fs>>
    /\ UNCHANGED import_state

CallGetAnnotationFromEntry ==
    /\ op = "none"
    /\ Len(arg.tasks) = 1
    /\ arg.tasks[1].key # "none"
    /\ op' = "get_annotation_from_entry"
    /\ ret' = get_annotation_from_entry(arg.tasks[1])
    /\ UNCHANGED <<arg, fs>>
    /\ UNCHANGED import_state

NextParser == CallReadAnnotations \/ CallGetAnnotationFromEntry

SpecParser == InitParser /\ [][NextParser]_vars

(***************************************************************************)
(* SpecTask: the same two calls applied to one task with up to MaxEntries  *)
(* annotation entries and every combination of image locations             *)
(***************************************************************************)
MaxEntries == 2

\* the result lists of an annotation entry: keypoints only, and two
\* individuals with a keypoint each
EntryPool ==
    { Pick(KeypointPool, {1}, 1),
      Pick(KeypointPool, {2, 3}, 1),
      Pick(RectanglePool, {1, 2}, 1) \o Pick(KeypointPool, {1, 2}, 1)
          \o Pick(RelationPool, {1, 5}, 1) }

InitTask ==
    /\ op = "none"
    /\ arg \in {[tasks |-> <<t>>] :
                   t \in [id : {"t1", "t2"}, key : {"annotations", "completions"},
                          entries : SeqsUpTo(EntryPool, MaxEntries) \ {<<>>},
                          meta_original_file : {None, FileOrder[1]},
                          task_path : {None, FileOrder[2]},
                          data_image : {None, <<"data", "upload", "x.png">>},
                          data_depth_image : {None, <<"data", "upload", "d.png">>}]}
    /\ ret = None
    /\ fs = NoFiles
    /\ label_studio = <<>> /\ labeled_data = {} /\ manifest = <<>>

SpecTask == InitTask /\ [][NextParser]_vars

(***************************************************************************)
(* SpecExport: intermediate_annotations_to_dlc applied to drawn records    *)
(* and convert_ls_annot_to_dlc applied to drawn task lists                 *)
(***************************************************************************)
MaxRecords == 3

AllKeys ==
    {"scorer", "project_path", "multianimalproject", "bodyparts", "individuals",
     "multianimalbodyparts", "uniquebodyparts"}

MultiConfig ==
    [has |-> AllKeys, multianimalproject |-> TRUE, scorer |-> "me",
     bodyparts |-> <<>>, individuals |-> <<"ind1", "ind2">>,
     multianimalbodyparts |-> <<"nose", "tail">>, uniquebodyparts |-> <<"tag">>]

\* a single-animal configuration with the single-animal keys only
SingleConfig ==
    [has |-> {"scorer", "project_path", "multianimalproject", "bodyparts"},
     multianimalproject |-> FALSE, scorer |-> "me",
     bodyparts |-> <<"nose", "tail">>, individuals |-> <<>>,
     multianimalbodyparts |-> <<>>, uniquebodyparts |-> <<>>]

\* a single-animal configuration that also holds the multi-animal keys
SingleConfigAllKeys ==
    [has |-> AllKeys, multianimalproject |-> FALSE, scorer |-> "me",
     bodyparts |-> <<"nose", "tail">>, individuals |-> <<"ind1", "ind2">>,
     multianimalbodyparts |-> <<"nose", "tail">>, uniquebodyparts |-> <<"tag">>]

Configs == {MultiConfig, SingleConfig, SingleConfigAllKeys}

\* what a record says, without its coordinates
RecordPool ==
    [file_name : {FileOrder[1], FileOrder[2]},
     label : {<<NoneStr, "tag">>, <<"ind1", "nose">>, <<NoneStr, "nose">>,
              <<"ind1", "tag">>, <<"ind1", "zzz">>, <<"ghost", "nose">>}]

\* the i-th record of a list has coordinates of its own
RecordsOf(picked) ==
    [i \in DOMAIN picked |->
        [py |-> "dict", task_id |-> "t1", file_name |-> picked[i].file_name,
         individual |-> picked[i].label[1], bodypart |-> picked[i].label[2],
         x |-> FInt(i), y |-> FInt(10 + i)]]

RecordLists == {RecordsOf(picked) : picked \in SeqsUpTo(RecordPool, MaxRecords)}

\* a table written by an earlier export
OldTable ==
    [index |-> "tuple", row_idx |-> <<FileOrder[1]>>,
     col_idx |-> make_index_from_dlc_config(SingleConfig),
     rows |-> <<[c \in 1 .. 4 |-> FInt(c)]>>]

OldFiles ==
    [p \in Paths |->
        IF p.n # 0 THEN Absent
        ELSE IF p.ext = "csv" THEN to_csv(OldTable) ELSE to_hdf(OldTable)]

InitExport ==
    /\ op = "none"
    /\ ret = None
    /\ \/ /\ fs = NoFiles
          /\ arg \in [records : RecordLists, dlc_config : Configs]
       \/ /\ fs \in {NoFiles, OldFiles}
          /\ arg \in [tasks : SeqsUpTo(ListTasks, MaxTasks), dlc_config : Configs,
                       split : BOOLEAN, save : BOOLEAN, files : {fs}]
    /\ label_studio = <<>> /\ labeled_data = {} /\ manifest = <<>>

CallAssemble ==
    /\ op = "none"
    /\ "records" \in DOMAIN arg
    /\ op' = "intermediate_annotations_to_dlc"
    /\ ret' = intermediate_annotations_to_dlc(arg.records, arg.dlc_config)
    /\ UNCHANGED <<arg, fs>>
    /\ UNCHANGED import_state

CallConvert ==
    /\ op = "none"
    /\ "tasks" \in DOMAIN arg
    /\ \A group \in {NoneStr, "v1", "v2"} : CanSave(fs, group)
    /\ \E done \in {convert_ls_annot_to_dlc(fs, arg.tasks, arg.dlc_config,
                                             arg.split, arg.save)} :
           /\ op' = "convert_ls_annot_to_dlc"
           /\ ret' = [exc |-> done.exc, value |-> done.value,
                      assembled |-> done.assembled]
           /\ fs' = done.files
    /\ UNCHANGED arg
    /\ UNCHANGED import_state

NextExport == CallAssemble \/ CallConvert

SpecExport == InitExport /\ [][NextExport]_vars

(***************************************************************************)
(* SpecRoundTrip: a fully populated table is assembled, saved with         *)
(* save_dlc_annots and read back with load_dlc_annotations_for_image       *)
(***************************************************************************)
MaxCoord == 2

\* a single-animal configuration with one bodypart
OneBodypartConfig ==
    [has |-> {"scorer", "project_path", "multianimalproject", "bodyparts"},
     multianimalproject |-> FALSE, scorer |-> "me",
     bodyparts |-> <<"nose">>, individuals |-> <<>>,
     multianimalbodyparts |-> <<>>, uniquebodyparts |-> <<>>]

\* a multi-animal configuration with as many individuals as bodyparts and
\* no unique bodypart
PairedConfig ==
    [has |-> AllKeys, multianimalproject |-> TRUE, scorer |-> "me",
     bodyparts |-> <<>>, individuals |-> <<"ind1", "ind2">>,
     multianimalbodyparts |-> <<"nose", "tail">>, uniquebodyparts |-> <<>>]

RoundTripConfigs == {MultiConfig, SingleConfig, OneBodypartConfig, PairedConfig}

\* the labelled images of one directory
ImageLists == {<<FileOrder[1]>>, <<FileOrder[2]>>, <<FileOrder[1], FileOrder[2]>>,
               <<FileOrder[2], FileOrder[1]>>, <<FileOrder[3]>>}

\* one record for every column pair of the schema and every image: no cell
\* of the table is left null
FullRecords(dlc_config, images, base) ==
    LET col_idx == make_index_from_dlc_config(dlc_config)
        nE == Len(col_idx) \div 2
    IN  [i \in 1 .. (Len(images) * nE) |->
            LET j == ((i - 1) \div nE) + 1
                k == ((i - 1) % nE) + 1
                column == col_idx[2 * k - 1]
            IN  [py |-> "dict", task_id |-> "t1", file_name |-> images[j],
                 individual |-> IF Len(column) = 4 /\ column[2] # "single"
                                THEN column[2] ELSE NoneStr,
                 bodypart |-> column[Len(column) - 1],
                 x |-> FInt(base + 10 * j + k), y |-> FInt(base + 20 * j + k)]]

FullTable(dlc_config, images, base) ==
    intermediate_annotations_to_dlc(FullRecords(dlc_config, images, base), dlc_config).value.table

\* a table as DeepLabCut wrote it when row labels were path strings
LegacyFiles(dlc_config, images) ==
    [p \in Paths |->
        IF p.n = 0 /\ p.ext = "h5" /\ p.dir = AnnotPath(images[1]).dir
        THEN to_hdf([FullTable(dlc_config, images, 0) EXCEPT !.index = "str"])
        ELSE Absent]

InitRoundTrip ==
    /\ op = "none"
    /\ ret = None
    /\ arg \in [dlc_config : RoundTripConfigs, images : ImageLists,
                 image : Range(FileOrder), base : 1 .. MaxCoord, saved : {FALSE}]
    /\ fs \in {NoFiles, LegacyFiles(arg.dlc_config, arg.images)}
    /\ label_studio = <<>> /\ labeled_data = {} /\ manifest = <<>>

CallSaveTable ==
    /\ op = "none"
    /\ CanSave(fs, GroupOf(arg.images[1]))
    /\ op' = "save_dlc_annots"
    /\ fs' = save_dlc_annots(fs, FullTable(arg.dlc_config, arg.images, arg.base),
                              GroupOf(arg.images[1]))
    /\ arg' = [arg EXCEPT !.saved = TRUE]
    /\ UNCHANGED ret
    /\ UNCHANGED import_state

CallLoad ==
    /\ op \in {"none", "save_dlc_annots"}
    /\ op' = "load_dlc_annotations_for_image"
    /\ \E indv_order \in IterationOrders(fs, arg.dlc_config, arg.image) :
           ret' = [value |-> load_dlc_annotations_for_image(fs, arg.dlc_config,
                                                            arg.image, indv_order)]
    /\ UNCHANGED <<arg, fs>>
    /\ UNCHANGED import_state

NextRoundTrip == CallSaveTable \/ CallLoad

SpecRoundTrip == InitRoundTrip /\ [][NextRoundTrip]_vars

(***************************************************************************)
(* Spec: tables are saved to one destination and files are backed up,      *)
(* over a directory that may hold files of earlier runs                    *)
(***************************************************************************)
SampleTables ==
    {FullTable(OneBodypartConfig, <<FileOrder[1]>>, base) : base \in 1 .. 2}

\* a directory as earlier runs may have left it: the table files and any of
\* their backups
EarlierFiles(dir) ==
    {[p \in Paths |->
         IF p.dir = dir /\ p.n \in (IF p.ext = "csv" THEN csv ELSE h5)
         THEN (IF p.ext = "csv" THEN to_csv(OldTable) ELSE to_hdf(OldTable))
         ELSE Absent] :
        csv \in SUBSET (0 .. MaxBackups), h5 \in {{}, {0}, {0, 1}}}

Init ==
    /\ op = "none"
    /\ ret = None
    /\ arg \in [group : {NoneStr, "v1"}]
    /\ fs \in EarlierFiles(Destination(arg.group, "csv").dir)
    /\ label_studio = <<>> /\ labeled_data = {} /\ manifest = <<>>

CallSave ==
    /\ CanSave(fs, arg.group)
    /\ \E annotations \in SampleTables :
           /\ fs' = save_dlc_annots(fs, annotations, arg.group)
           /\ arg' = [group |-> arg.group, annotations |-> annotations, files |-> fs]
    /\ op' = "save_dlc_annots"
    /\ ret' = None
    /\ UNCHANGED import_state

CallBackup ==
    \E ext \in {"csv", "h5"} :
        /\ CanBackup(fs, Destination(arg.group, ext))
        /\ \E done \in {backup_existing_file(fs, Destination(arg.group, ext))} :
               /\ fs' = done.files
               /\ ret' = [exc |-> done.exc, value |-> done.new_path]
        /\ arg' = [group |-> arg.group, origional_path |-> Destination(arg.group, ext),
                   files |-> fs]
        /\ op' = "backup_existing_file"
        /\ UNCHANGED import_state

\* a save in which one of the two writes raises
CallSaveRaises ==
    /\ CanSave(fs, arg.group)
    /\ \E annotations \in SampleTables :
           \E failing \in {"to_csv", "to_hdf"} :
               \E done \in {save_dlc_annots_raising(fs, annotations, arg.group, failing)} :
                   /\ fs' = done.files
                   /\ ret' = [exc |-> done.exc, value |-> None]
                   /\ arg' = [group |-> arg.group, annotations |-> annotations,
                              files |-> fs]
    /\ op' = "save_dlc_annots"
    /\ UNCHANGED import_state

Next == CallSave \/ CallSaveRaises \/ CallBackup

Spec == Init /\ [][Next]_vars

(***************************************************************************)
(* Claims about the parser                                                 *)
(***************************************************************************)
ObjectsOf(results, type) == {o \in Range(results) : o.type = type}

Joins(e, a, b) ==
    \/ e.from_id = a.id /\ e.to_id = b.id
    \/ e.from_id = b.id /\ e.to_id = a.id

\* the rectangles of `results` that a relation edge joins to keypoint k
RectanglesOf(results, k) ==
    {r \in ObjectsOf(results, "rectanglelabels") :
        \E e \in ObjectsOf(results, "relation") : Joins(e, k, r)}

ObjectIds(results) ==
    {o.id : o \in ObjectsOf(results, "rectanglelabels") \cup ObjectsOf(results, "keypointlabels")}

Dangling(results) ==
    {e \in ObjectsOf(results, "relation") :
        e.from_id \notin ObjectIds(results) \/ e.to_id \notin ObjectIds(results)}

\* every edge joins a keypoint to a rectangle, and no keypoint has two rectangles
PlainGraph(results) ==
    /\ \A e \in ObjectsOf(results, "relation") :
           \E k \in ObjectsOf(results, "keypointlabels") :
               \E r \in ObjectsOf(results, "rectanglelabels") : Joins(e, k, r)
    /\ \A k \in ObjectsOf(results, "keypointlabels") :
           Cardinality(RectanglesOf(results, k)) <= 1

HasRecord(records, bodypart, individual) ==
    \E i \in DOMAIN records :
        records[i].bodypart = bodypart /\ records[i].individual = individual

\* C2: in a task with at least one rectangle, every keypoint joined to a
\* rectangle yields a record with that rectangle's label as individual and
\* every other keypoint a record with individual none, one record a keypoint.
C2_RelatedKeypointsGetIndividual ==
    (/\ op = "get_annotation_from_entry"
     /\ arg.tasks[1].entries # <<>>
     /\ ObjectsOf(arg.tasks[1].entries[1], "rectanglelabels") # {}
     /\ PlainGraph(arg.tasks[1].entries[1]))
    => LET results == arg.tasks[1].entries[1]
           kpts == ObjectsOf(results, "keypointlabels")
       IN  /\ ret.exc = NoExc
           /\ Len(ret.value) = Cardinality(kpts)
           /\ \A k \in kpts :
                  /\ \A r \in RectanglesOf(results, k) :
                         HasRecord(ret.value, k.label, r.label)
                  /\ RectanglesOf(results, k) = {} =>
                         HasRecord(ret.value, k.label, NoneStr)

\* C3: read_annotations returns the records of all tasks as one flat list, in
\* task order: every element is a record, none a per-task list.
C3_ReadAnnotationsIsFlat ==
    (op = "read_annotations" /\ ret.exc = NoExc)
    => /\ \A i \in DOMAIN ret.value : ret.value[i].py = "dict"
       /\ ret.value =
              Flatten([i \in DOMAIN arg.tasks |->
                          get_annotation_from_entry(arg.tasks[i]).value])

\* the first task without annotation data, all earlier tasks being annotated
FirstUnreadable(tasks, i) ==
    /\ tasks[i].key = "none"
    /\ \A j \in 1 .. (i - 1) : tasks[j].key # "none" /\ tasks[j].entries # <<>>

\* C4: a task with neither 'annotations' nor 'completions' aborts
\* read_annotations with an error that carries that task's id, and no record
\* is returned.
C4_MissingAnnotationsNamesTask ==
    \A i \in DOMAIN arg.tasks :
        (op = "read_annotations" /\ FirstUnreadable(arg.tasks, i))
        => /\ ret.exc # NoExc
           /\ ret.value = None
           /\ arg.tasks[i].id \in Range(ret.exc.args)

\* C5: a relation edge naming an id that is no keypoint and no rectangle of
\* the task aborts the parse of that task with an error carrying the task id,
\* whatever the number of rectangles.
C5_DanglingRelationAborts ==
    (/\ op = "get_annotation_from_entry"
     /\ arg.tasks[1].entries # <<>>
     /\ Dangling(arg.tasks[1].entries[1]) # {})
    => /\ ret.exc # NoExc
       /\ arg.tasks[1].id \in Range(ret.exc.args)

\* the records are those of the keypoints of `results`, one a keypoint
RecordsOfKeypoints(records, results) ==
    /\ Len(records) = Cardinality(ObjectsOf(results, "keypointlabels"))
    /\ \A k \in ObjectsOf(results, "keypointlabels") :
           \E i \in DOMAIN records :
               /\ records[i].bodypart = k.label
               /\ records[i].x = FDiv(FMul(k.x, FInt(k.original_width)), FInt(100))
               /\ records[i].y = FDiv(FMul(k.y, FInt(k.original_height)), FInt(100))

\* C24: get_annotation_from_entry over a task with more than one annotation
\* entry returns the records of the first entry's result objects only and
\* prints one warning that names the task id; with one entry it prints no
\* warning; read_annotations over such a task returns the same records
\* without an error.
C24_OnlyFirstEntryIsParsed ==
    LET task == arg.tasks[1]
    IN  /\ op = "get_annotation_from_entry"
           => /\ ret.exc = NoExc
              /\ RecordsOfKeypoints(ret.value, task.entries[1])
              /\ Len(task.entries) > 1 => ret.warned = <<task.id>>
              /\ Len(task.entries) = 1 => ret.warned = <<>>
        /\ op = "read_annotations"
           => /\ ret.exc = NoExc
              /\ Len(ret.value) = 1
              /\ RecordsOfKeypoints(ret.value[1].items, task.entries[1])

\* a task with two entries of different keypoints was parsed with a warning
C24_Witness ==
    /\ op = "get_annotation_from_entry"
    /\ Len(arg.tasks[1].entries) = 2
    /\ ObjectsOf(arg.tasks[1].entries[1], "keypointlabels")
           \cap ObjectsOf(arg.tasks[1].entries[2], "keypointlabels") = {}
    /\ ret.exc = NoExc
    /\ ret.warned = <<arg.tasks[1].id>>
    /\ Len(ret.value) = 2

\* C25: every record of a task carries as file_name the first present of
\* meta.original_file, task_path, data.image and data.depth_image, whichever
\* later locations are present as well.
C25_FileNameByFixedPriority ==
    (op = "get_annotation_from_entry" /\ ret.exc = NoExc)
    => LET task    == arg.tasks[1]
           places  == <<task.meta_original_file, task.task_path,
                        task.data_image, task.data_depth_image>>
           present == {p \in DOMAIN places : places[p] # None}
       IN  present # {}
           => \A i \in DOMAIN ret.value :
                  \E p \in present :
                      /\ \A q \in present : p <= q
                      /\ ret.value[i].file_name = places[p]

\* task_path wins over data.image and data.depth_image when meta holds no
\* original_file
C25_Witness ==
    /\ op = "get_annotation_from_entry"
    /\ ret.exc = NoExc
    /\ arg.tasks[1].meta_original_file = None
    /\ arg.tasks[1].task_path # None
    /\ arg.tasks[1].data_image # None
    /\ arg.tasks[1].data_depth_image # None
    /\ Len(ret.value) = 2
    /\ \A i \in DOMAIN ret.value : ret.value[i].file_name = arg.tasks[1].task_path

\* C28: a task whose annotation list is present and empty is parsed to zero
\* records and does not abort read_annotations: the call returns, with no
\* record for that task and the records of the other tasks.
C28_EmptyAnnotationListGivesNoRecords ==
    (/\ op = "read_annotations"
     /\ \A i \in DOMAIN arg.tasks : arg.tasks[i].key # "none"
     /\ \E i \in DOMAIN arg.tasks : arg.tasks[i].entries = <<>>)
    => /\ ret.exc = NoExc
       /\ Len(ret.value) = Len(arg.tasks)
       /\ \A i \in DOMAIN arg.tasks :
              IF arg.tasks[i].entries = <<>>
              THEN ret.value[i].items = <<>>
              ELSE RecordsOfKeypoints(ret.value[i].items, arg.tasks[i].entries[1])

\* the rectangles of `results` that no relation edge touches
Unattached(results) ==
    {r \in ObjectsOf(results, "rectanglelabels") :
        \A e \in ObjectsOf(results, "relation") : e.from_id # r.id /\ e.to_id # r.id}

\* C29: in a task with several rectangles, one of them without any relation
\* edge, get_annotation_from_entry does not raise: the rectangle without an
\* edge contributes no record and every keypoint joined to another rectangle
\* is emitted with that rectangle's label.
C29_UnattachedRectangleGivesNoRecords ==
    (/\ op = "get_annotation_from_entry"
     /\ arg.tasks[1].entries # <<>>
     /\ Cardinality(ObjectsOf(arg.tasks[1].entries[1], "rectanglelabels")) > 1
     /\ Unattached(arg.tasks[1].entries[1]) # {}
     /\ PlainGraph(arg.tasks[1].entries[1]))
    => LET results == arg.tasks[1].entries[1]
       IN  /\ ret.exc = NoExc
           /\ \A r \in Unattached(results) :
                  \A i \in DOMAIN ret.value : ret.value[i].individual # r.label
           /\ \A k \in ObjectsOf(results, "keypointlabels") :
                  \A r \in RectanglesOf(results, k) :
                      HasRecord(ret.value, k.label, r.label)

(***************************************************************************)
(* Claims about the assembler and the conversion                           *)
(***************************************************************************)
\* the (individual-or-'single', bodypart) entities a schema has columns for
SchemaEntities(dlc_config) ==
    IF dlc_config.multianimalproject
    THEN {<<i, b>> : i \in Range(dlc_config.individuals),
                     b \in Range(dlc_config.multianimalbodyparts)}
         \cup {<<"single", b>> : b \in Range(dlc_config.uniquebodyparts)}
    ELSE {<<b>> : b \in Range(dlc_config.bodyparts)}

EntityOf(dlc_config, annot) ==
    IF dlc_config.multianimalproject
    THEN <<IF annot.individual = NoneStr THEN "single" ELSE annot.individual,
           annot.bodypart>>
    ELSE <<annot.bodypart>>

\* the positions of the records whose column key the schema does not have
Violations(dlc_config, records) ==
    {i \in DOMAIN records : EntityOf(dlc_config, records[i]) \notin SchemaEntities(dlc_config)}

\* the p-th column of a schema, in schema order
SchemaColumnAt(dlc_config, p) ==
    LET e     == (p - 1) \div 2
        coord == IF p % 2 = 1 THEN "x" ELSE "y"
        nM    == Len(dlc_config.multianimalbodyparts)
        nIM   == Len(dlc_config.individuals) * nM
    IN  IF ~dlc_config.multianimalproject
        THEN <<dlc_config.scorer, dlc_config.bodyparts[e + 1], coord>>
        ELSE IF e < nIM
        THEN <<dlc_config.scorer, dlc_config.individuals[(e \div nM) + 1],
               dlc_config.multianimalbodyparts[(e % nM) + 1], coord>>
        ELSE <<dlc_config.scorer, "single", dlc_config.uniquebodyparts[e - nIM + 1], coord>>

SchemaColumnCount(dlc_config) ==
    IF dlc_config.multianimalproject
    THEN 2 * (Len(dlc_config.individuals) * Len(dlc_config.multianimalbodyparts)
              + Len(dlc_config.uniquebodyparts))
    ELSE 2 * Len(dlc_config.bodyparts)

\* every task has annotation data with one entry at least
Readable(tasks) ==
    \A i \in DOMAIN tasks : tasks[i].key # "none" /\ tasks[i].entries # <<>>

\* the records of the tasks, one flat list in task order
ParsedRecords(tasks) ==
    Flatten([i \in DOMAIN tasks |-> get_annotation_from_entry(tasks[i]).value])

C6_ErrorCountIsViolationCount ==
    /\ (/\ op = "intermediate_annotations_to_dlc"
        /\ arg.dlc_config.multianimalproject
        /\ arg.records # <<>>)
       => /\ ret.exc = NoExc
          /\ ret.value.errors_found
                 = Cardinality(Violations(arg.dlc_config, arg.records))
    /\ (/\ op = "convert_ls_annot_to_dlc"
        /\ arg.dlc_config.multianimalproject
        /\ Readable(arg.tasks)
        /\ Violations(arg.dlc_config, ParsedRecords(arg.tasks)) # {})
       => ret.value = None /\ fs = arg.files

\* two violating records around a valid one are counted as two
C6_Witness ==
    /\ op = "intermediate_annotations_to_dlc"
    /\ arg.dlc_config.multianimalproject
    /\ Len(arg.records) = 3
    /\ Violations(arg.dlc_config, arg.records) = {1, 3}
    /\ ret.exc = NoExc
    /\ ret.value.errors_found = 2

\* C7: a table built by intermediate_annotations_to_dlc has the columns of
\* the schema in schema order, whatever the records, one row for each
\* distinct file_name of the records, whatever their order, and a cell is
\* non-null only where a valid record of that row's file wrote it.
C7_OneRowPerFileSchemaColumns ==
    (op = "intermediate_annotations_to_dlc" /\ ret.exc = NoExc)
    => LET table == ret.value.table
           names == {arg.records[i].file_name : i \in DOMAIN arg.records}
       IN  /\ DOMAIN table.col_idx = 1 .. SchemaColumnCount(arg.dlc_config)
           /\ \A c \in DOMAIN table.col_idx :
                  table.col_idx[c] = SchemaColumnAt(arg.dlc_config, c)
           /\ Len(table.row_idx) = Cardinality(names)
           /\ Range(table.row_idx) = names
           /\ DOMAIN table.rows = DOMAIN table.row_idx
           /\ \A r \in DOMAIN table.rows :
                  /\ DOMAIN table.rows[r] = DOMAIN table.col_idx
                  /\ \A c \in DOMAIN table.col_idx :
                         table.rows[r][c] # None =>
                             \E i \in DOMAIN arg.records \ Violations(arg.dlc_config, arg.records) :
                                 /\ arg.records[i].file_name = table.row_idx[r]
                                 /\ table.col_idx[c][Len(table.col_idx[c]) - 1]
                                        = arg.records[i].bodypart
                                 /\ table.rows[r][c] =
                                        IF c % 2 = 1 THEN arg.records[i].x
                                        ELSE arg.records[i].y

\* three records of two files, not in file order, give two rows with
\* written and null cells
C7_Witness ==
    /\ op = "intermediate_annotations_to_dlc"
    /\ ret.exc = NoExc
    /\ Len(arg.records) = 3
    /\ arg.records[1].file_name = FileOrder[1]
    /\ arg.records[2].file_name = FileOrder[2]
    /\ arg.records[3].file_name = FileOrder[1]
    /\ Len(ret.value.table.row_idx) = 2
    /\ \E c \in DOMAIN ret.value.table.col_idx : ret.value.table.rows[1][c] # None
    /\ \E c \in DOMAIN ret.value.table.col_idx : ret.value.table.rows[1][c] = None

(***************************************************************************)
(* Claims about saving, loading and backups                                *)
(***************************************************************************)
\* the pixel coordinate a result object's percentage stands for
PixelOf(percent, dimension) == FDiv(FMul(percent, FInt(dimension)), FInt(100))

\* C8: a fully populated table that was assembled and saved with
\* save_dlc_annots is read back by load_dlc_annotations_for_image: for an
\* image of the table the loader returns the row, every saved cell value
\* being that of a keypoint of the cell's bodypart.
C8_SavedTableLoadsBack ==
    (/\ op = "load_dlc_annotations_for_image"
     /\ arg.saved
     /\ arg.image \in Range(arg.images))
    => /\ ret.value # None
       /\ LET saved == FullRecords(arg.dlc_config, arg.images, arg.base)
          IN  \A i \in DOMAIN saved :
                  saved[i].file_name = arg.image =>
                      \E j \in DOMAIN ret.value.result :
                          /\ ret.value.result[j].type = "keypointlabels"
                          /\ ret.value.result[j].label = saved[i].bodypart
                          /\ PixelOf(ret.value.result[j].x,
                                     ret.value.result[j].original_width) = saved[i].x
                          /\ PixelOf(ret.value.result[j].y,
                                     ret.value.result[j].original_height) = saved[i].y

\* C9: backup_existing_file on an existing file copies it to the backup
\* name with the smallest number from 1 that no file has, and returns that
\* path.
C9_BackupTakesSmallestFreeNumber ==
    (op = "backup_existing_file" /\ exists(arg.files, arg.origional_path))
    => /\ ret.exc = NoExc
       /\ ret.value = [arg.origional_path EXCEPT !.n = ret.value.n]
       /\ ret.value.n >= 1
       /\ ~exists(arg.files, ret.value)
       /\ \A m \in 1 .. (ret.value.n - 1) :
              exists(arg.files, [arg.origional_path EXCEPT !.n = m])
       /\ fs[ret.value] = arg.files[arg.origional_path]

\* with .backup-1 and .backup-3 there and .backup-2 not, the backup is .backup-2
C9_Witness ==
    /\ op = "backup_existing_file"
    /\ exists(arg.files, arg.origional_path)
    /\ exists(arg.files, [arg.origional_path EXCEPT !.n = 1])
    /\ ~exists(arg.files, [arg.origional_path EXCEPT !.n = 2])
    /\ exists(arg.files, [arg.origional_path EXCEPT !.n = 3])
    /\ ret.value = [arg.origional_path EXCEPT !.n = 2]
    /\ fs[ret.value] = arg.files[arg.origional_path]

\* C10: no step changes or removes a file that exists, other than the
\* destination a save overwrites: a backup leaves every file as it was, a
\* backup file is never overwritten, and what a file held is held after the
\* step by the destination or a backup of the same extension. So what a
\* save wrote stays there, step after step.
C10_BackupKeepsEveryFile ==
    [][\A p \in Paths :
           exists(fs, p) =>
               /\ (op' = "backup_existing_file" \/ p.n # 0) => fs'[p] = fs[p]
               /\ \E q \in Paths :
                      q.dir = p.dir /\ q.ext = p.ext /\ fs'[q] = fs[p]]_vars

\* a save over an existing table, with an older backup in place: the new
\* table is at the destination, the table it replaced in a new backup, the
\* older backup as it was
C10_Witness ==
    /\ op = "save_dlc_annots"
    /\ LET dest == Destination(arg.group, "csv")
       IN  /\ exists(arg.files, dest)
           /\ exists(arg.files, [dest EXCEPT !.n = 1])
           /\ fs[dest] = to_csv(arg.annotations)
           /\ fs[dest] # arg.files[dest]
           /\ fs[[dest EXCEPT !.n = 1]] = arg.files[[dest EXCEPT !.n = 1]]
           /\ \E n \in 2 .. MaxBackups :
                  /\ ~exists(arg.files, [dest EXCEPT !.n = n])
                  /\ fs[[dest EXCEPT !.n = n]] = arg.files[dest]

\* the table a file holds, whatever the representation
LogicalTable(content) ==
    IF content.format = "csv"
    THEN [row_idx |-> [r \in DOMAIN content.lines |-> content.lines[r].label],
          col_idx |-> content.header,
          rows    |-> [r \in DOMAIN content.lines |-> content.lines[r].fields]]
    ELSE [row_idx |-> content.table.row_idx,
          col_idx |-> content.table.col_idx,
          rows    |-> content.table.rows]

\* the two files of a destination hold one table, or neither is there
Consistent(files, group) ==
    LET csv == files[Destination(group, "csv")]
        h5  == files[Destination(group, "h5")]
    IN  \/ csv = Absent /\ h5 = Absent
        \/ csv # Absent /\ h5 # Absent /\ LogicalTable(csv) = LogicalTable(h5)

\* C11: after a save_dlc_annots call that returned, the csv and the h5 of
\* the destination both hold the table of the call; after one that aborted,
\* over a destination whose two files agreed, the two files still agree.
C11_BothFilesHoldOneTable ==
    op = "save_dlc_annots"
    => /\ ret = None =>
              /\ fs[Destination(arg.group, "csv")] = to_csv(arg.annotations)
              /\ fs[Destination(arg.group, "h5")] = to_hdf(arg.annotations)
              /\ Consistent(fs, arg.group)
       /\ Consistent(arg.files, arg.group) => Consistent(fs, arg.group)

\* C20: a keypoint result of a task yields one record at most, also when
\* relation edges join it to two rectangles.
C20_KeypointYieldsOneRecord ==
    (/\ op = "get_annotation_from_entry"
     /\ arg.tasks[1].entries # <<>>
     /\ ret.exc = NoExc)
    => \A k \in ObjectsOf(arg.tasks[1].entries[1], "keypointlabels") :
           Cardinality({i \in DOMAIN ret.value : ret.value[i].bodypart = k.label}) <= 1

(***************************************************************************)
(* dlc_data.py: filter_dataset.  Here a string is the sequence of its       *)
(* characters, because a shell pattern matches character by character.     *)
(***************************************************************************)
MaxPaths == 2
MaxPatterns == 2

\* fnmatch.fnmatch(name, pat) as filter_dataset calls it (line 45): the whole
\* name has to match; '*' matches any run of characters, '/' included, '?'
\* matches one character, any other character matches itself.  (Patterns
\* with a character class [...] are not drawn.)
RECURSIVE fnmatch(_, _)
fnmatch(name, pat) ==
    IF pat = <<>> THEN name = <<>>
    ELSE IF Head(pat) = "*"
    THEN \/ fnmatch(name, Tail(pat))
         \/ name # <<>> /\ fnmatch(Tail(name), pat)
    ELSE IF Head(pat) = "?"
    THEN name # <<>> /\ fnmatch(Tail(name), Tail(pat))
    ELSE name # <<>> /\ Head(name) = Head(pat) /\ fnmatch(Tail(name), Tail(pat))

\* the inner loop (lines 44-47) continuing after a match
RECURSIVE filter_item_NoBreak(_, _, _)
filter_item_NoBreak(item, filters, out) ==
    IF filters = <<>> THEN out
    ELSE filter_item_NoBreak(item, Tail(filters),
                             IF fnmatch(item, Head(filters))
                             THEN Append(out, item) ELSE out)

\* lines 44-47: the first filter that matches appends the item and breaks
RECURSIVE filter_item(_, _, _)
filter_item(item, filters, out) ==
    IF filters = <<>> THEN out
    ELSE IF fnmatch(item, Head(filters)) THEN Append(out, item)
    ELSE filter_item(item, Tail(filters), out)

\* lines 42-49
RECURSIVE filter_dataset_from(_, _, _)
filter_dataset_from(dataset, filters, out) ==
    IF dataset = <<>> THEN out
    ELSE Force(filter_item(Head(dataset), filters, out), LAMBDA next :
             filter_dataset_from(Tail(dataset), filters, next))

filter_dataset(dataset, filters) == filter_dataset_from(dataset, filters, <<>>)

(***************************************************************************)
(* SpecFilter: filter_dataset applied to drawn path lists and patterns      *)
(***************************************************************************)
\* "a/1.png", "b/2.png", "a/b.txt"
PathPool ==
    {<<"a", "/", "1", ".", "p", "n", "g">>,
     <<"b", "/", "2", ".", "p", "n", "g">>,
     <<"a", "/", "b", ".", "t", "x", "t">>}

\* "a/*", "*.png", "?/1.png", "*", "b/2.png", "*/", "a/?.p*g"
PatternPool ==
    {<<"a", "/", "*">>,
     <<"*", ".", "p", "n", "g">>,
     <<"?", "/", "1", ".", "p", "n", "g">>,
     <<"*">>,
     <<"b", "/", "2", ".", "p", "n", "g">>,
     <<"*", "/">>,
     <<"a", "/", "?", ".", "p", "*", "g">>}

InitFilter ==
    /\ op = "none"
    /\ arg \in [dataset : SeqsUpTo(PathPool, MaxPaths),
                 filters : SeqsUpTo(PatternPool, MaxPatterns)]
    /\ ret = None
    /\ fs = NoFiles
    /\ label_studio = <<>> /\ labeled_data = {} /\ manifest = <<>>

CallFilterDataset ==
    /\ op = "none"
    /\ op' = "filter_dataset"
    /\ ret' = filter_dataset(arg.dataset, arg.filters)
    /\ UNCHANGED <<arg, fs>>
    /\ UNCHANGED import_state

NextFilter == CallFilterDataset

SpecFilter == InitFilter /\ [][NextFilter]_vars

\* the filters an item matches
MatchedBy(item, filters) == {i \in DOMAIN filters : fnmatch(item, filters[i])}

\* C13: filter_dataset returns the paths that match at least one pattern,
\* each once per occurrence and in input order; ["a/1.png", "b/2.png"] under
\* ["a/*"] gives ["a/1.png"], and no pattern gives the empty list.
C13_FilterKeepsMatchesInOrder ==
    op = "filter_dataset"
    => /\ ret = SelectSeq(arg.dataset, LAMBDA item : MatchedBy(item, arg.filters) # {})
       /\ arg.filters = <<>> => ret = <<>>
       /\ (/\ arg.dataset = <<<<"a", "/", "1", ".", "p", "n", "g">>,
                               <<"b", "/", "2", ".", "p", "n", "g">>>>
           /\ arg.filters = <<<<"a", "/", "*">>>>)
          => ret = <<<<"a", "/", "1", ".", "p", "n", "g">>>>

\* a list in which a path occurs twice and matches two of the patterns, next
\* to a run with a path that matches none
C13_Witness ==
    /\ op = "filter_dataset"
    /\ Len(arg.dataset) = 2
    /\ arg.dataset[1] = arg.dataset[2]
    /\ Cardinality(MatchedBy(arg.dataset[1], arg.filters)) = 2
    /\ ret = arg.dataset

(***************************************************************************)
(* label_config.py.  An XML element is [tag, attrs, children]; the value    *)
(* of create_label_config is the tree that etree.tostring writes out.  The  *)
(* background of the i-th label of a group is the i-th colour of            *)
(* sns.color_palette(palette, n), written i.                                *)
(***************************************************************************)
MaxNames == 2

Element(tag, attrs, children) == [tag |-> tag, attrs |-> attrs, children |-> children]

\* lines 64-67, 83-86, 92-95, 101-104: one Label per name, zipped with the
\* colours
Labels(names) ==
    [i \in DOMAIN names |->
        Element("Label", [value |-> names[i], background |-> i], <<>>)]

\* lines 36-53
create_image_labeling_config ==
    Element("View", [style |-> "flex: 90%"],
            <<Element("Image",
                      [name |-> "image", value |-> "$image", width |-> "750px",
                       maxWidth |-> "1000px", zoom |-> "true", zoomControl |-> "true",
                       brightnessControl |-> "true", contrastControl |-> "true"],
                      <<>>)>>)

\* lines 56-69
create_singleanimal_bodyparts_labeling_config(dlc_config) ==
    Element("KeyPointLabels",
            [name |-> "keypoint-label", toName |-> "image", strokewidth |-> "2",
             opacity |-> "1"],
            Labels(dlc_config.bodyparts))

\* the three groups, each capped at one use
create_multianimal_bodyparts_labeling_config_AllCapped(dlc_config) ==
    <<Element("Header", [value |-> "Individuals"], <<>>),
      Element("RectangleLabels",
              [name |-> "individuals", toName |-> "image", maxUsages |-> "1"],
              Labels(dlc_config.individuals)),
      Element("Header", [value |-> "Multi-Animal Bodyparts"], <<>>),
      Element("KeyPointLabels",
              [name |-> "mabp", toName |-> "image", maxUsages |-> "1"],
              Labels(dlc_config.multianimalbodyparts)),
      Element("Header", [value |-> "Unique Bodyparts"], <<>>),
      Element("KeyPointLabels",
              [name |-> "uniqbp", toName |-> "image", maxUsages |-> "1"],
              Labels(dlc_config.uniquebodyparts))>>

\* lines 72-108
create_multianimal_bodyparts_labeling_config(dlc_config) ==
    <<Element("Header", [value |-> "Individuals"], <<>>),
      Element("RectangleLabels",
              [name |-> "individuals", toName |-> "image", maxUsages |-> "1"],
              Labels(dlc_config.individuals)),
      Element("Header", [value |-> "Multi-Animal Bodyparts"], <<>>),
      Element("KeyPointLabels",
              [name |-> "mabp", toName |-> "image"],
              Labels(dlc_config.multianimalbodyparts)),
      Element("Header", [value |-> "Unique Bodyparts"], <<>>),
      Element("KeyPointLabels",
              [name |-> "uniqbp", toName |-> "image", maxUsages |-> "1"],
              Labels(dlc_config.uniquebodyparts))>>

\* lines 10-33
create_label_config(dlc_config) ==
    Element("View", [style |-> "display: flex;"],
            <<create_image_labeling_config,
              Element("View", [style |-> "flex: 10%; margin-left: 1em"],
                      IF is_multianimal(dlc_config)
                      THEN create_multianimal_bodyparts_labeling_config(dlc_config)
                      ELSE <<Element("Header", [value |-> "Bodyparts"], <<>>),
                             create_singleanimal_bodyparts_labeling_config(dlc_config)>>)>>)

(***************************************************************************)
(* SpecLabelConfig: the label configuration and the column index built      *)
(* from drawn schemas                                                       *)
(***************************************************************************)
\* single-animal schemas over their bodyparts, multi-animal schemas over
\* their three lists; a list may name an entry twice
Schemas ==
    {[has |-> AllKeys, multianimalproject |-> FALSE, scorer |-> "me",
      bodyparts |-> b, individuals |-> <<>>, multianimalbodyparts |-> <<>>,
      uniquebodyparts |-> <<>>] :
        b \in SeqsUpTo({"nose", "tail", "tag"}, MaxNames)}
    \cup
    {[has |-> AllKeys, multianimalproject |-> TRUE, scorer |-> "me",
      bodyparts |-> <<>>, individuals |-> i, multianimalbodyparts |-> m,
      uniquebodyparts |-> u] :
        i \in SeqsUpTo({"ind1", "ind2"}, MaxNames),
        m \in SeqsUpTo({"nose", "tail"}, MaxNames),
        u \in SeqsUpTo({"tag", "nose"}, MaxNames)}

InitLabelConfig ==
    /\ op = "none"
    /\ arg \in [dlc_config : Schemas]
    /\ ret = None
    /\ fs = NoFiles
    /\ label_studio = <<>> /\ labeled_data = {} /\ manifest = <<>>

CallCreateLabelConfig ==
    /\ op = "none"
    /\ op' = "create_label_config"
    /\ ret' = create_label_config(arg.dlc_config)
    /\ UNCHANGED <<arg, fs>>
    /\ UNCHANGED import_state

CallMakeIndex ==
    /\ op = "none"
    /\ op' = "make_index_from_dlc_config"
    /\ ret' = make_index_from_dlc_config(arg.dlc_config)
    /\ UNCHANGED <<arg, fs>>
    /\ UNCHANGED import_state

NextLabelConfig == CallCreateLabelConfig \/ CallMakeIndex

SpecLabelConfig == InitLabelConfig /\ [][NextLabelConfig]_vars

\* the label groups of a label configuration: the children of the labeling
\* view that are no headers
GroupsOf(label_config) ==
    SelectSeq(label_config.children[2].children, LAMBDA e : e.tag # "Header")

\* the label values of a group, in order
ValuesOf(group) == [i \in DOMAIN group.children |-> group.children[i].attrs.value]

Capped(group) == "maxUsages" \in DOMAIN group.attrs /\ group.attrs.maxUsages = "1"

\* C16: a single-animal schema gives one keypoint-label group with a label
\* per bodypart in schema order; a multi-animal schema gives the groups
\* individuals (rectangles, one use), multi-animal bodyparts (keypoints, no
\* cap), unique bodyparts (keypoints, one use), in this order, each with a
\* label per schema entry in schema order.
C16_LabelGroupsFollowSchema ==
    op = "create_label_config"
    => LET groups == GroupsOf(ret)
           schema == arg.dlc_config
       IN  IF schema.multianimalproject
           THEN /\ Len(groups) = 3
                /\ groups[1].tag = "RectangleLabels" /\ Capped(groups[1])
                /\ ValuesOf(groups[1]) = schema.individuals
                /\ groups[2].tag = "KeyPointLabels"
                /\ "maxUsages" \notin DOMAIN groups[2].attrs
                /\ ValuesOf(groups[2]) = schema.multianimalbodyparts
                /\ groups[3].tag = "KeyPointLabels" /\ Capped(groups[3])
                /\ ValuesOf(groups[3]) = schema.uniquebodyparts
           ELSE /\ Len(groups) = 1
                /\ groups[1].tag = "KeyPointLabels"
                /\ ValuesOf(groups[1]) = schema.bodyparts

\* a multi-animal schema with two individuals, two shared bodyparts and a
\* unique one
C16_Witness ==
    /\ op = "create_label_config"
    /\ arg.dlc_config.multianimalproject
    /\ Len(GroupsOf(ret)) = 3
    /\ ValuesOf(GroupsOf(ret)[1]) = <<"ind1", "ind2">>
    /\ ValuesOf(GroupsOf(ret)[2]) = <<"nose", "tail">>
    /\ ValuesOf(GroupsOf(ret)[3]) = <<"tag">>

\* the entities a user can label under a label configuration
LabelEntities(label_config) ==
    LET groups == GroupsOf(label_config)
        Values(n) == {ValuesOf(groups[n])[i] : i \in DOMAIN groups[n].children}
    IN  IF Len(groups) = 3
        THEN {<<i, b>> : i \in Values(1), b \in Values(2)}
             \cup {<<"single", u>> : u \in Values(3)}
        ELSE {<<"single", b>> : b \in Values(1)}

\* the entities the columns of an index span
ColumnEntities(col_idx) ==
    {IF Len(col_idx[c]) = 4 THEN <<col_idx[c][2], col_idx[c][3]>>
     ELSE <<"single", col_idx[c][2]>> : c \in DOMAIN col_idx}

\* C17: for every schema the entities spanned by the columns of
\* make_index_from_dlc_config are the entities labelled by
\* create_label_config.
C17_ColumnsAndLabelsSpanSameEntities ==
    /\ op = "create_label_config"
       => LabelEntities(ret) = ColumnEntities(make_index_from_dlc_config(arg.dlc_config))
    /\ op = "make_index_from_dlc_config"
       => ColumnEntities(ret) = LabelEntities(create_label_config(arg.dlc_config))

\* a multi-animal schema with individuals, shared and unique bodyparts
C17_Witness ==
    /\ op = "make_index_from_dlc_config"
    /\ arg.dlc_config.multianimalproject
    /\ <<"ind2", "tail">> \in ColumnEntities(ret)
    /\ <<"single", "tag">> \in ColumnEntities(ret)
    /\ Cardinality(ColumnEntities(ret)) = 5

(***************************************************************************)
(* Float arithmetic of the two conversions (dlc_data.py lines 116-117,      *)
(* ls_annot_parser.py lines 61-62 and 71-72).  A Python float is an IEEE    *)
(* binary64: here a non-negative one is [m, q] with the value m * 2^q,      *)
(* where m, 2^52 <= m < 2^53, is held as three limbs of 18 bits, the most   *)
(* significant first; zero is DZero.  Every operation rounds its exact      *)
(* result to the nearest double, ties to the even one.  The second operand  *)
(* is an integer below 2^12.                                                *)
(***************************************************************************)
Limb == 2 ^ 18

DZero == [m |-> <<0, 0, 0>>, q |-> 0]

BitLength(n) == IF n = 0 THEN 0 ELSE CHOOSE b \in 1 .. 30 : 2 ^ (b - 1) <= n /\ n < 2 ^ b

\* float(n) for an integer 0 <= n < 2^17
DFromInt(n) ==
    IF n = 0 THEN DZero
    ELSE [m |-> <<n * 2 ^ (17 - BitLength(n)), 0, 0>>, q |-> BitLength(n) - 53]

\* limbs * k + carry, one limb longer
RECURSIVE MulLimbs(_, _, _)
MulLimbs(limbs, k, carry) ==
    IF limbs = <<>> THEN <<carry>>
    ELSE LET t == limbs[Len(limbs)] * k + carry
         IN  Append(MulLimbs(SubSeq(limbs, 1, Len(limbs) - 1), k, t \div Limb), t % Limb)

\* quotient and remainder of (rem * Limb^Len(limbs) + limbs) by D
RECURSIVE DivLimbs(_, _, _)
DivLimbs(limbs, D, rem) ==
    IF limbs = <<>> THEN [quot |-> <<>>, rem |-> rem]
    ELSE LET t    == rem * Limb + Head(limbs)
             rest == DivLimbs(Tail(limbs), D, t % D)
         IN  [quot |-> <<t \div D>> \o rest.quot, rem |-> rest.rem]

\* the double nearest to limbs / D * 2^q, where the integer part of
\* limbs / D has 53 bits
RoundedQuotient(limbs, D, q) ==
    LET d    == DivLimbs(limbs, D, 0)
        n    == Len(d.quot)
        hi   == d.quot[n - 2]
        mid  == d.quot[n - 1]
        lo   == d.quot[n]
        up   == 2 * d.rem > D \/ (2 * d.rem = D /\ lo % 2 = 1)
    IN  IF ~up THEN [m |-> <<hi, mid, lo>>, q |-> q]
        ELSE IF lo + 1 < Limb THEN [m |-> <<hi, mid, lo + 1>>, q |-> q]
        ELSE IF mid + 1 < Limb THEN [m |-> <<hi, mid + 1, 0>>, q |-> q]
        ELSE IF hi + 1 < 2 ^ 17 THEN [m |-> <<hi + 1, 0, 0>>, q |-> q]
        ELSE [m |-> <<2 ^ 16, 0, 0>>, q |-> q + 1]

\* a * k for a float a and an integer k
DMulInt(a, k) ==
    IF a = DZero \/ k = 0 THEN DZero
    ELSE LET product == MulLimbs(a.m, k, 0)
             shift   == IF product[1] > 0 THEN BitLength(product[1]) + 1
                        ELSE BitLength(product[2]) - 17
         IN  RoundedQuotient(product, 2 ^ shift, a.q + shift)

\* a / k for a float a and an integer k > 0
DDivInt(a, k) ==
    IF a = DZero THEN DZero
    ELSE LET t0     == BitLength(k) - 1
             Scaled(t) == MulLimbs(a.m, 2 ^ t, 0)
             first  == DivLimbs(Scaled(t0), k, 0).quot
             t      == IF first[1] = 0 /\ first[2] >= 2 ^ 16 THEN t0 ELSE t0 + 1
         IN  RoundedQuotient(Scaled(t), k, a.q - t)

\* dlc_data.py lines 116-117: x_pos / width * 100
percent_of(pos, dimension) == DMulInt(DDivInt(pos, dimension), 100)

\* a percentage taken for the pixel value
pixel_of_Unscaled(percent, dimension) == percent

\* ls_annot_parser.py lines 61-62, 71-72: (value * original_dimension) / 100
pixel_of(percent, dimension) == DDivInt(DMulInt(percent, dimension), 100)

(***************************************************************************)
(* SpecPercent: the loader's conversion of a pixel position to percent,     *)
(* then the parser's conversion back                                        *)
(***************************************************************************)
MaxPixel == 5

\* pixel positions: whole pixels, halves and thirds
PixelPositions == {DDivInt(DFromInt(n), d) : n \in 0 .. MaxPixel, d \in 1 .. 3}

InitPercent ==
    /\ op = "none"
    /\ arg \in [x : PixelPositions, y : PixelPositions,
                 w : 1 .. MaxPixel, h : 1 .. MaxPixel]
             \cup {[x |-> DFromInt(50), y |-> DFromInt(25), w |-> 100, h |-> 50]}
    /\ ret = None
    /\ fs = NoFiles
    /\ label_studio = <<>> /\ labeled_data = {} /\ manifest = <<>>

\* dlc_data.py lines 116-117
CallLoaderPercent ==
    /\ op = "none"
    /\ op' = "to_percent"
    /\ ret' = [x |-> percent_of(arg.x, arg.w), y |-> percent_of(arg.y, arg.h)]
    /\ UNCHANGED <<arg, fs>>
    /\ UNCHANGED import_state

\* ls_annot_parser.py lines 61-62, 71-72, on what the loader produced
CallParserPixel ==
    /\ op = "to_percent"
    /\ op' = "to_pixel"
    /\ ret' = [x |-> pixel_of(ret.x, arg.w), y |-> pixel_of(ret.y, arg.h)]
    /\ UNCHANGED <<arg, fs>>
    /\ UNCHANGED import_state

NextPercent == CallLoaderPercent \/ CallParserPixel

SpecPercent == InitPercent /\ [][NextPercent]_vars

\* the double next above a positive double
DSucc(a) ==
    IF a.m[3] + 1 < Limb THEN [a EXCEPT !.m[3] = @ + 1]
    ELSE IF a.m[2] + 1 < Limb THEN [a EXCEPT !.m = <<a.m[1], a.m[2] + 1, 0>>]
    ELSE IF a.m[1] + 1 < 2 ^ 17 THEN [a EXCEPT !.m = <<a.m[1] + 1, 0, 0>>]
    ELSE [m |-> <<2 ^ 16, 0, 0>>, q |-> a.q + 1]

\* equal, or at most two doubles apart
Near(a, b) ==
    \/ a = b
    \/ /\ a # DZero
       /\ b # DZero
       /\ \/ b \in {DSucc(a), DSucc(DSucc(a))}
          \/ a \in {DSucc(b), DSucc(DSucc(b))}

\* C18 as stated: the conversion to percent followed by the conversion back
\* returns the original (x, y).
C18_PercentRoundTripIsExact ==
    op = "to_pixel" => ret.x = arg.x /\ ret.y = arg.y

\* C18, amended: the conversion to percent followed by the conversion back
\* returns each coordinate up to float rounding, at most two doubles away
\* from the original; (50, 25) on a 100 by 50 image comes back exactly.
C18_PercentRoundTripWithinRounding ==
    op = "to_pixel"
    => /\ Near(ret.x, arg.x)
       /\ Near(ret.y, arg.y)
       /\ (arg.w = 100 /\ arg.h = 50) =>
              ret = [x |-> DFromInt(50), y |-> DFromInt(25)]

\* a round trip in which x comes back one double off and y exactly
C18_Witness ==
    /\ op = "to_pixel"
    /\ arg.x # DZero
    /\ arg.y # DZero
    /\ ret.x # arg.x
    /\ Near(ret.x, arg.x)
    /\ ret.y = arg.y

(***************************************************************************)
(* data_import.py, cli.py, ls_client.py: the import.  The project on the    *)
(* server is [id, label_config, tasks]; a task is what the export of Label  *)
(* Studio holds for it (key "annotations", entries: one result list per     *)
(* annotation).  An image path is written below the project root, so the    *)
(* removal of the project_path prefix (line 41, line 65) and the join with  *)
(* it (line 43) do not show.  A filter pattern is written by its pieces:    *)
(* "*" and the path segments between the '/' of the pattern.                *)
(***************************************************************************)
MaxImported == 3

\* dlc_data.py lines 25-28: glob lists the images in the order of the
\* directory listing, which is any order
collect_dataset(image_set) ==
    {order \in [1 .. Cardinality(image_set) -> image_set] : Range(order) = image_set}

\* ls_client.py lines 92-96: the export holds the tasks that carry an
\* annotation ("Tasks with annotations")
export_tasks(project) == SelectSeq(project.tasks, LAMBDA t : t.entries # <<>>)

\* ls_annot_parser.py lines 183-193: a['file_name'] of every element of
\* what read_annotations returns
pick_filenames_from_tasks(tasks) ==
    Force(read_annotations(tasks), LAMBDA annot :
        IF annot.exc # NoExc THEN [exc |-> annot.exc, value |-> None]
        ELSE IF \E i \in DOMAIN annot.value : ~HasStringKeys(annot.value[i])
        THEN Raised("TypeError", <<"list indices must be integers or slices, not str">>)
        ELSE Returned([i \in DOMAIN annot.value |-> annot.value[i].file_name]))

\* data_import.py lines 27-90; `found` is what collect_dataset returned and
\* indv_order the iteration order of a set in this run.  The value is
\* [exc, value, project]: the uploads and the project after the calls of
\* upload_data_file and add_task_to_project.
import_dlc_data(project, files, dlc_config, update, filter_patterns, found, indv_order) ==
    LET up_deets(fup) == [file |-> <<"upload", fup[Len(fup)]>>, original_file |-> fup]
        task(fup, id) ==
            Force(load_dlc_annotations_for_image(files, dlc_config, fup, indv_order),
                  LAMBDA annot :
                [Task(id, "annotations",
                      IF annot = None THEN <<>> ELSE <<annot.result>>, fup)
                 EXCEPT !.data_image = <<"data">> \o up_deets(fup).file])
        Upload(files_to_upload) ==
            [exc |-> NoExc,
             value |-> [i \in DOMAIN files_to_upload |-> up_deets(files_to_upload[i])],
             project |-> [project EXCEPT !.tasks = @ \o
                             [i \in DOMAIN files_to_upload |->
                                 task(files_to_upload[i], Len(project.tasks) + i)]]]
    IN  Force(IF filter_patterns = None THEN found
              ELSE filter_dataset(found, filter_patterns), LAMBDA discovered :
            IF ~update THEN Upload(discovered)
            ELSE Force(pick_filenames_from_tasks(export_tasks(project)), LAMBDA existing :
                     IF existing.exc # NoExc
                     THEN [exc |-> existing.exc, value |-> None, project |-> project]
                     ELSE Upload(SelectSeq(FileOrder, LAMBDA f :
                                     f \in Range(discovered) \ Range(existing.value)))))

\* the manifest holding the records of this run only
manifest_written_ThisRunOnly(update, prev_uploaded_files, uploaded_files) == uploaded_files

\* cli.py lines 58-61: what write_yaml writes to the manifest
manifest_written(update, prev_uploaded_files, uploaded_files) ==
    IF update THEN prev_uploaded_files \o uploaded_files ELSE uploaded_files

(***************************************************************************)
(* SpecImport: runs of import-dlc-project over one Label Studio project,    *)
(* while images are added to the dataset and tasks are annotated            *)
(***************************************************************************)
\* no --filter, and the filters "*/b.png" and "*/v2/*"
FilterChoices == {None, <<<<"*", "b.png">>, <<"*", "v2", "*">>>>}

\* cli.py lines 46-47: the project as create_project_from_dlc creates it
CreatedProject(dlc_config) ==
    [id |-> 1, label_config |-> create_label_config(dlc_config), tasks |-> <<>>]

InitImport ==
    /\ op = "none"
    /\ arg \in [dlc_config : {OneBodypartConfig, MultiConfig}]
    /\ ret = None
    /\ fs \in {NoFiles, LegacyFiles(arg.dlc_config, <<FileOrder[1]>>)}
    /\ labeled_data \in {{}, {FileOrder[2]}}
    /\ label_studio \in {None, CreatedProject(arg.dlc_config)}
    /\ manifest = Absent

\* cli.py lines 37-61.  A run without --update-project creates the project
\* the model follows; a run with it names that project, and because it sorts
\* what it found (line 42) one order of the listing stands for all.
CallImportDlcProject ==
    /\ \E update \in BOOLEAN, filter_patterns \in FilterChoices,
          found \in IF label_studio = None THEN collect_dataset(labeled_data)
                    ELSE {SelectSeq(FileOrder, LAMBDA f : f \in labeled_data)},
          indv_order \in IterationOrders(fs, arg.dlc_config, FileOrder[1]) :
           /\ update <=> label_studio # None
           /\ \E done \in {import_dlc_data(IF update THEN label_studio
                                             ELSE CreatedProject(arg.dlc_config),
                                            fs, arg.dlc_config, update, filter_patterns,
                                            found, indv_order)} :
                  /\ Len(done.project.tasks) <= MaxImported
                  /\ label_studio' = done.project
                  /\ IF done.exc # NoExc
                     THEN ret' = [exc |-> done.exc, value |-> None] /\ UNCHANGED manifest
                     ELSE IF update /\ manifest = Absent
                     THEN /\ ret' = Raised("FileNotFoundError", <<"manifest">>)
                          /\ UNCHANGED manifest
                     ELSE /\ ret' = Returned(None)
                          /\ manifest' =
                                 [content |-> manifest_written(update,
                                                  IF update THEN manifest.content ELSE <<>>,
                                                  done.value)]
           /\ arg' = [dlc_config |-> arg.dlc_config, update |-> update,
                      filter_patterns |-> filter_patterns,
                      label_studio |-> label_studio, manifest |-> manifest]
    /\ op' = "import_dlc_project"
    /\ UNCHANGED <<fs, labeled_data>>

\* a frame is added to the dataset between two runs
AddImage ==
    /\ \E image \in Range(FileOrder) \ labeled_data :
           labeled_data' = labeled_data \cup {image}
    /\ op' = "add_image"
    /\ arg' = [dlc_config |-> arg.dlc_config]
    /\ ret' = None
    /\ UNCHANGED <<fs, label_studio, manifest>>

\* a user of Label Studio submits an annotation, one keypoint, of a task
\* that has none
UserAnnotates ==
    /\ label_studio # None
    /\ \E i \in DOMAIN label_studio.tasks :
           /\ label_studio.tasks[i].entries = <<>>
           /\ label_studio' = [label_studio EXCEPT !.tasks[i].entries =
                                  <<<<Keypoint("k1", "nose", FInt(50), FInt(50))>>>>]
    /\ op' = "annotate"
    /\ arg' = [dlc_config |-> arg.dlc_config]
    /\ ret' = None
    /\ UNCHANGED <<fs, labeled_data, manifest>>

NextImport == CallImportDlcProject \/ AddImage \/ UserAnnotates

SpecImport == InitImport /\ [][NextImport]_vars

(***************************************************************************)
(* Claims about the import                                                  *)
(***************************************************************************)
\* the tasks the project held before the run
TasksBefore == IF arg.update THEN arg.label_studio.tasks ELSE <<>>

\* the tasks the run added, in the order it added them
NewTasks == SubSeq(label_studio.tasks, Len(TasksBefore) + 1, Len(label_studio.tasks))

\* the images below labeled-data/ that pass the filter of the run
Discovered ==
    {f \in labeled_data :
        arg.filter_patterns = None \/ MatchedBy(f, arg.filter_patterns) # {}}

\* the table file next to the image is missing, or holds no row for the image
NoAnnotationFor(image) ==
    \/ ~exists(fs, AnnotPath(image))
    \/ RowOf(fs[AnnotPath(image)].table, image) = 0

\* C12: load_dlc_annotations_for_image returns None when the table file next
\* to the image is missing and when the table has no row for the image; the
\* import goes on and creates a task without annotations for such an image.
C12_MissingTableOrRowGivesPlainTask ==
    op = "import_dlc_project"
    => /\ \A i \in DOMAIN NewTasks :
              LET image == NewTasks[i].meta_original_file
              IN  NoAnnotationFor(image)
                  => /\ NewTasks[i].entries = <<>>
                     /\ \A indv_order \in IterationOrders(fs, arg.dlc_config, image) :
                            load_dlc_annotations_for_image(fs, arg.dlc_config, image,
                                                           indv_order) = None
       /\ ~arg.update
          => /\ ret.exc = NoExc
             /\ {NewTasks[i].meta_original_file : i \in DOMAIN NewTasks} = Discovered

\* one run imports an image with a row in its table, an image whose table has
\* no row for it, and an image without a table
C12_Witness ==
    /\ op = "import_dlc_project"
    /\ ret.exc = NoExc
    /\ exists(fs, AnnotPath(FileOrder[1]))
    /\ \E i, j, k \in DOMAIN NewTasks :
           /\ NewTasks[i].meta_original_file = FileOrder[1]
           /\ NewTasks[i].entries # <<>>
           /\ NewTasks[j].meta_original_file = FileOrder[2]
           /\ NewTasks[j].entries = <<>>
           /\ NewTasks[k].meta_original_file = FileOrder[3]
           /\ NewTasks[k].entries = <<>>

\* C14: an update run uploads the discovered images that no task of the
\* project names, each once, in the order of their relative paths, and
\* import_dlc_data returns.
C14_UpdateUploadsExactlyNewImages ==
    (op = "import_dlc_project" /\ arg.update)
    => /\ ret.exc.type \in {"NoExc", "FileNotFoundError"}
       /\ [i \in DOMAIN NewTasks |-> NewTasks[i].meta_original_file]
              = SelectSeq(FileOrder, LAMBDA f :
                    /\ f \in Discovered
                    /\ \A i \in DOMAIN TasksBefore :
                           TasksBefore[i].meta_original_file # f)

\* C15: no image is uploaded again: no two tasks of the project are tasks
\* of one image.
C15_NoImageUploadedTwice ==
    label_studio # None
    => \A i, j \in DOMAIN label_studio.tasks :
           i # j => label_studio.tasks[i].meta_original_file
                        # label_studio.tasks[j].meta_original_file

\* C19: after an update run that completes, the manifest is the manifest of
\* before followed by one record for each file the run uploaded, in upload
\* order; a run that uploads nothing, and a run that raises, leave the
\* manifest as it was.
C19_ManifestGrowsByThisRunsUploads ==
    op = "import_dlc_project"
    => /\ (arg.update /\ ret.exc = NoExc)
          => /\ Len(manifest.content) = Len(arg.manifest.content) + Len(NewTasks)
             /\ SubSeq(manifest.content, 1, Len(arg.manifest.content))
                    = arg.manifest.content
             /\ \A i \in DOMAIN NewTasks :
                    LET record == manifest.content[Len(arg.manifest.content) + i]
                    IN  /\ record.original_file = NewTasks[i].meta_original_file
                        /\ <<"data">> \o record.file = NewTasks[i].data_image
             /\ NewTasks = <<>> => manifest = arg.manifest
       /\ ret.exc # NoExc => manifest = arg.manifest

\* an update run that completes, over a manifest with a record, with uploads
C19_Witness ==
    /\ op = "import_dlc_project"
    /\ arg.update
    /\ ret.exc = NoExc
    /\ arg.manifest.content # <<>>
    /\ Len(manifest.content) > Len(arg.manifest.content)

(***************************************************************************)
(* Claims about the assembler's error handling                             *)
(***************************************************************************)
\* the configuration holds the single-animal keys and none of the
\* multi-animal ones
SingleKeysOnly(dlc_config) ==
    /\ ~is_multianimal(dlc_config)
    /\ {"scorer", "bodyparts"} \subseteq dlc_config.has
    /\ dlc_config.has \cap {"individuals", "multianimalbodyparts", "uniquebodyparts"} = {}

\* C21: under a single-animal schema that holds the single-animal keys only,
\* a record whose bodypart is not in bodyparts is counted as one violation
\* with rationale 'Unknown'; intermediate_annotations_to_dlc goes on with
\* the remaining records and returns the table and the count, it does not
\* raise.
C21_SingleAnimalUnknownBodypartIsCounted ==
    (/\ op = "intermediate_annotations_to_dlc"
     /\ SingleKeysOnly(arg.dlc_config)
     /\ arg.records # <<>>)
    => /\ ret.exc = NoExc
       /\ ret.value.errors_found
              = Cardinality(Violations(arg.dlc_config, arg.records))
       /\ \A m \in Range(ret.value.messages) : m.rationale = "Unknown"

\* C22: intermediate_annotations_to_dlc reports one message for each
\* violating record, in the order it processes them, and the rationale of a
\* record's message is 'multianimal bodypart without individual' exactly
\* when the bodypart is a multianimalbodypart and the individual is None,
\* 'unique bodypart with an individual' exactly when that is not so and the
\* bodypart is a uniquebodypart and the individual is not None, and 'Unknown'
\* otherwise.
C22_RationaleFollowsGroupMembership ==
    (op = "intermediate_annotations_to_dlc" /\ ret.exc = NoExc)
    => LET cfg       == arg.dlc_config
           messages  == ret.value.messages
           violating == SelectSeq(SortedByFileName(arg.records, <<>>),
                            LAMBDA r : EntityOf(cfg, r) \notin SchemaEntities(cfg))
           multi(r)  == /\ r.bodypart \in Range(cfg.multianimalbodyparts)
                        /\ r.individual = NoneStr
           unique(r) == /\ ~multi(r)
                        /\ r.bodypart \in Range(cfg.uniquebodyparts)
                        /\ r.individual # NoneStr
       IN  /\ Len(messages) = Len(violating)
           /\ \A k \in DOMAIN messages :
                  /\ messages[k].file_name = violating[k].file_name
                  /\ messages[k].bodypart = violating[k].bodypart
                  /\ messages[k].rationale
                         \in {"multianimal bodypart without individual",
                              "unique bodypart with an individual", "Unknown"}
                  /\ messages[k].rationale = "multianimal bodypart without individual"
                         <=> multi(violating[k])
                  /\ messages[k].rationale = "unique bodypart with an individual"
                         <=> unique(violating[k])

\* one call reports a record of each rationale
C22_Witness ==
    /\ op = "intermediate_annotations_to_dlc"
    /\ ret.exc = NoExc
    /\ {ret.value.messages[k].rationale : k \in DOMAIN ret.value.messages}
           = {"multianimal bodypart without individual",
              "unique bodypart with an individual", "Unknown"}

\* the positions of the valid records that write the cell of file_name under
\* the column
WritersOf(dlc_config, records, file_name, column) ==
    {i \in DOMAIN records \ Violations(dlc_config, records) :
        /\ records[i].file_name = file_name
        /\ SubSeq(column, 2, Len(column) - 1) = EntityOf(dlc_config, records[i])}

Last(S) == CHOOSE i \in S : \A j \in S : j <= i

\* C23: in a table intermediate_annotations_to_dlc returns, a cell that
\* several records of one file_name write holds the coordinate of the record
\* that is last in the input list, its x and its y cell hold the coordinates
\* of the same record, and the error count is that of the violating records:
\* a duplicate adds none.
C23_LastDuplicateWins ==
    (op = "intermediate_annotations_to_dlc" /\ ret.exc = NoExc)
    => LET cfg   == arg.dlc_config
           table == ret.value.table
       IN  /\ ret.value.errors_found = Cardinality(Violations(cfg, arg.records))
           /\ \A r \in DOMAIN table.rows : \A c \in DOMAIN table.col_idx :
                  LET writers == WritersOf(cfg, arg.records, table.row_idx[r],
                                           table.col_idx[c])
                      coord   == table.col_idx[c][Len(table.col_idx[c])]
                  IN  table.rows[r][c] =
                          IF writers = {} THEN None
                          ELSE IF coord = "x" THEN arg.records[Last(writers)].x
                          ELSE arg.records[Last(writers)].y

\* the first and the third of three valid records write one cell; the cell
\* and its y neighbour hold the third record's coordinates
C23_Witness ==
    /\ op = "intermediate_annotations_to_dlc"
    /\ ret.exc = NoExc
    /\ ret.value.errors_found = 0
    /\ Len(arg.records) = 3
    /\ arg.records[1].file_name = arg.records[3].file_name
    /\ arg.records[1].bodypart = arg.records[3].bodypart
    /\ arg.records[1].individual = arg.records[3].individual
    /\ arg.records[1].x # arg.records[3].x
    /\ \E c \in DOMAIN ret.value.table.col_idx :
           /\ ret.value.table.rows[1][c] = arg.records[3].x
           /\ ret.value.table.rows[1][c + 1] = arg.records[3].y

(***************************************************************************)
(* Claims about the result list of the loader                              *)
(***************************************************************************)
\* the table next to the image, as the loader reads it
TableOf(image_path) == fs[AnnotPath(image_path)].table

\* the cell of the image's row under a column, None where it is null
CellOf(image_path, column) ==
    TableOf(image_path).rows[RowOf(TableOf(image_path), image_path)]
                            [ColumnIndex(TableOf(image_path).col_idx, column)]

\* C26: for a single-animal project with two or more bodyparts whose table
\* exists and has a row for the image, load_dlc_annotations_for_image does
\* not return None: it returns one keypoint for each bodypart whose x and y
\* cells are both non-null, labelled with the bodypart, and nothing else.
C26_SingleAnimalRowLoads ==
    (/\ op = "load_dlc_annotations_for_image"
     /\ ~is_multianimal(arg.dlc_config)
     /\ Len(arg.dlc_config.bodyparts) >= 2
     /\ exists(fs, AnnotPath(arg.image))
     /\ RowOf(TableOf(arg.image), arg.image) # 0)
    => /\ ret.value # None
       /\ LET scorer == arg.dlc_config.scorer
              full == {b \in Range(arg.dlc_config.bodyparts) :
                          /\ CellOf(arg.image, <<scorer, b, "x">>) # None
                          /\ CellOf(arg.image, <<scorer, b, "y">>) # None}
          IN  /\ Len(ret.value.result) = Cardinality(full)
              /\ \A b \in full :
                     \E j \in DOMAIN ret.value.result :
                         /\ ret.value.result[j].type = "keypointlabels"
                         /\ ret.value.result[j].label = b

\* C27: for a multi-animal project whose table exists and has a row for the
\* image, the result list of load_dlc_annotations_for_image parses back:
\* the rectangles and keypoints of the list have ids distinct from one
\* another, and get_annotation_from_entry over the list returns one record
\* for each (individual, bodypart) whose x and y cells are both non-null,
\* with that individual (none for a unique bodypart) and that bodypart.
C27_MultiAnimalResultParsesBack ==
    (/\ op = "load_dlc_annotations_for_image"
     /\ is_multianimal(arg.dlc_config)
     /\ exists(fs, AnnotPath(arg.image))
     /\ RowOf(TableOf(arg.image), arg.image) # 0)
    => /\ ret.value # None
       /\ LET result  == ret.value.result
              objects == {j \in DOMAIN result :
                             result[j].type \in {"rectanglelabels", "keypointlabels"}}
              scorer  == arg.dlc_config.scorer
              cells   == {e \in SchemaEntities(arg.dlc_config) :
                             /\ CellOf(arg.image, <<scorer>> \o e \o <<"x">>) # None
                             /\ CellOf(arg.image, <<scorer>> \o e \o <<"y">>) # None}
              parsed  == get_annotation_from_entry(
                             Task("t1", "annotations", <<result>>, arg.image))
          IN  /\ \A i, j \in objects : i # j => result[i].id # result[j].id
              /\ parsed.exc = NoExc
              /\ Len(parsed.value) = Cardinality(cells)
              /\ \A e \in cells :
                     HasRecord(parsed.value, e[2],
                               IF e[1] = "single" THEN NoneStr ELSE e[1])

(***************************************************************************)
(* SpecSplit: split_annotations_by_directory applied to drawn records      *)
(***************************************************************************)
MaxSplit == 3

\* file names of records: images of two directories of the project, and an
\* image of a directory of the same name elsewhere
SplitPaths ==
    { <<"labeled-data", "v1", "a.png">>, <<"labeled-data", "v1", "b.png">>,
      <<"labeled-data", "v2", "a.png">>, <<"data", "upload", "v1", "a.png">> }

InitSplit ==
    /\ op = "none"
    /\ ret = None
    /\ arg \in {[records |-> RecordsOf(picked)] :
                   picked \in SeqsUpTo([file_name : SplitPaths,
                                        label : {<<NoneStr, "nose">>}], MaxSplit)}
    /\ fs = NoFiles
    /\ label_studio = <<>> /\ labeled_data = {} /\ manifest = <<>>

CallSplitAnnotationsByDirectory ==
    /\ op = "none"
    /\ op' = "split_annotations_by_directory"
    /\ ret' = split_annotations_by_directory(arg.records)
    /\ UNCHANGED <<arg, fs>>
    /\ UNCHANGED import_state

NextSplit == CallSplitAnnotationsByDirectory

SpecSplit == InitSplit /\ [][NextSplit]_vars

\* the directory path a file name lies in
EnclosingDirectory(file_name) == SubSeq(file_name, 1, Len(file_name) - 1)

\* C30: split_annotations_by_directory partitions the records: every record
\* is in exactly one group, every grouped item is a record of the input, the
\* order inside a group is input order, the key of a group is the name of
\* the directory its records' file names lie in, and the records of one
\* group lie in one and the same directory path.
C30_SplitPartitionsByDirectory ==
    op = "split_annotations_by_directory"
    => /\ ret.exc = NoExc
       /\ LET grouped == ret.value
              places(r) == {<<k, j>> \in (DOMAIN grouped.keys) \X (1 .. Len(arg.records)) :
                               j \in DOMAIN grouped.item[k] /\ grouped.item[k][j] = r}
              at(r) == CHOOSE i \in DOMAIN arg.records : arg.records[i] = r
          IN  /\ \A k, l \in DOMAIN grouped.keys :
                     grouped.keys[k] = grouped.keys[l] => k = l
              /\ \A i \in DOMAIN arg.records : Cardinality(places(arg.records[i])) = 1
              /\ \A k \in DOMAIN grouped.keys :
                     /\ grouped.item[k] # <<>>
                     /\ \A j \in DOMAIN grouped.item[k] :
                            /\ grouped.item[k][j] \in Range(arg.records)
                            /\ grouped.keys[k]
                                   = grouped.item[k][j].file_name
                                         [Len(grouped.item[k][j].file_name) - 1]
                     /\ \A i, j \in DOMAIN grouped.item[k] :
                            /\ i < j => at(grouped.item[k][i]) < at(grouped.item[k][j])
                            /\ EnclosingDirectory(grouped.item[k][i].file_name)
                                   = EnclosingDirectory(grouped.item[k][j].file_name)

====
